---- MODULE Spec2Model ----
(***************************************************************************)
(* A model of the natural-language-to-database assistant (src/agent.py)    *)
(* and of the bucket loader (src/image.py).                                *)
(*                                                                         *)
(* Text is modelled character by character: a Python str is a sequence of  *)
(* one-character strings, so that strip(), lower(), startswith(), the `in` *)
(* substring test and the regular expressions of the source are computed   *)
(* as the source computes them.  Every call to an external service (the    *)
(* database client, the HTTP endpoints, the file system, Whisper) is a     *)
(* nondeterministic choice over the outcomes the code distinguishes.       *)
(***************************************************************************)
EXTENDS Integers, Sequences, FiniteSets, TLC

(***************************************************************************)
(* Characters and Python's str methods                                     *)
(***************************************************************************)
UpperLetters == <<"A","B","C","D","E","F","G","H","I","J","K","L","M",
                  "N","O","P","Q","R","S","T","U","V","W","X","Y","Z">>
LowerLetters == <<"a","b","c","d","e","f","g","h","i","j","k","l","m",
                  "n","o","p","q","r","s","t","u","v","w","x","y","z">>
DigitChars == <<"0","1","2","3","4","5","6","7","8","9">>

IsUpper(c) == \E i \in 1..26 : UpperLetters[i] = c
IsLowerLetter(c) == \E i \in 1..26 : LowerLetters[i] = c
IsDigit(c) == \E i \in 1..10 : DigitChars[i] = c
DigitVal(c) == (CHOOSE i \in 1..10 : DigitChars[i] = c) - 1

\* str.lower() and str.upper() on one character
LowerChar(c) == IF IsUpper(c) THEN LowerLetters[CHOOSE i \in 1..26 : UpperLetters[i] = c] ELSE c
UpperChar(c) == IF IsLowerLetter(c) THEN UpperLetters[CHOOSE i \in 1..26 : LowerLetters[i] = c] ELSE c
Lower(s) == [i \in 1..Len(s) |-> LowerChar(s[i])]
Upper(s) == [i \in 1..Len(s) |-> UpperChar(s[i])]

\* the classes \s, \w and \S of Python's re module, and '.' without DOTALL
IsSpace(c) == c \in {" ", "\t", "\n", "\r"}
IsWord(c) == IsUpper(c) \/ IsLowerLetter(c) \/ IsDigit(c) \/ c = "_"
IsNonSpace(c) == ~IsSpace(c)
IsDot(c) == c # "\n"

StartsWith(s, p) == Len(s) >= Len(p) /\ SubSeq(s, 1, Len(p)) = p
EndsWith(s, p) == Len(s) >= Len(p) /\ SubSeq(s, Len(s) - Len(p) + 1, Len(s)) = p
\* Python's `sub in s`
Contains(s, sub) == \E i \in 1..(Len(s) - Len(sub) + 1) : SubSeq(s, i, i + Len(sub) - 1) = sub

SetMin(S) == CHOOSE x \in S : \A y \in S : x <= y
SetMax(S) == 0 - SetMin({0 - x : x \in S})

\* str.strip(): leading and trailing whitespace removed
Strip(s) ==
  LET keep == {i \in 1..Len(s) : ~IsSpace(s[i])}
  IN IF keep = {} THEN <<>> ELSE SubSeq(s, SetMin(keep), SetMax(keep))
\* str.rstrip(';'): trailing semicolons removed, nothing else
RStripSemi(s) ==
  LET keep == {i \in 1..Len(s) : s[i] # ";"}
  IN IF keep = {} THEN <<>> ELSE SubSeq(s, 1, SetMax(keep))

\* str.split(sep) for a one-character separator: the pieces between the separators
RECURSIVE Split(_, _)
Split(s, sep) ==
  LET at == {i \in 1..Len(s) : s[i] = sep}
  IN IF at = {} THEN <<s>>
     ELSE <<SubSeq(s, 1, SetMin(at) - 1)>> \o Split(SubSeq(s, SetMin(at) + 1, Len(s)), sep)

\* str.split(sep, 1): at most one split
Split1(s, sep) ==
  LET at == {i \in 1..Len(s) : s[i] = sep}
  IN IF at = {} THEN <<s>>
     ELSE <<SubSeq(s, 1, SetMin(at) - 1), SubSeq(s, SetMin(at) + 1, Len(s))>>

(***************************************************************************)
(* Regular-expression steps.  A position is the index of the next          *)
(* character to read; 0 means the match failed.                            *)
(***************************************************************************)
\* a literal, matched with re.IGNORECASE (lit is given in lower case)
MatchCI(s, p, lit) ==
  IF p # 0 /\ p + Len(lit) - 1 <= Len(s) /\ Lower(SubSeq(s, p, p + Len(lit) - 1)) = lit
  THEN p + Len(lit) ELSE 0
\* the end of the longest run of characters of a class that starts at p
SpaceEnd(s, p) ==
  CHOOSE j \in p..(Len(s) + 1) :
    /\ (j = Len(s) + 1 \/ ~IsSpace(s[j]))
    /\ \A k \in p..(j - 1) : ~(~IsSpace(s[k]))
WordEnd(s, p) ==
  CHOOSE j \in p..(Len(s) + 1) :
    /\ (j = Len(s) + 1 \/ ~IsWord(s[j]))
    /\ \A k \in p..(j - 1) : ~(~IsWord(s[k]))
NonSpaceEnd(s, p) ==
  CHOOSE j \in p..(Len(s) + 1) :
    /\ (j = Len(s) + 1 \/ IsSpace(s[j]))
    /\ \A k \in p..(j - 1) : ~(IsSpace(s[k]))
LineEnd(s, p) ==
  CHOOSE j \in p..(Len(s) + 1) :
    /\ (j = Len(s) + 1 \/ s[j] = "\n")
    /\ \A k \in p..(j - 1) : ~(s[k] = "\n")
\* \s+, \s*, \w+ and \S+ , each greedy
Space1(s, p) == IF p = 0 \/ p > Len(s) \/ ~IsSpace(s[p]) THEN 0 ELSE SpaceEnd(s, p)
Space0(s, p) == IF p = 0 THEN 0 ELSE IF p > Len(s) THEN p ELSE SpaceEnd(s, p)
Word1(s, p) == IF p = 0 \/ p > Len(s) \/ ~IsWord(s[p]) THEN 0 ELSE WordEnd(s, p)
NonSpace1(s, p) == IF p = 0 \/ p > Len(s) \/ IsSpace(s[p]) THEN 0 ELSE NonSpaceEnd(s, p)
Char1(s, p, c) == IF p # 0 /\ p <= Len(s) /\ s[p] = c THEN p + 1 ELSE 0
\* no newline among s[a..b-1]: what '.' can cross
DotRun(s, a, b) == \A i \in a..(b - 1) : IsDot(s[i])

(***************************************************************************)
(* Values the database client receives: None, str, int, float.  A float is *)
(* n / 10^d with trailing zeros of the fraction dropped, so that 1.50 and  *)
(* 1.5 are one value and 5 (an int) and 5.0 (a float) are two.             *)
(***************************************************************************)
NullV == [t |-> "null", s |-> <<>>, n |-> 0, d |-> 0]
StrV(s) == [t |-> "str", s |-> s, n |-> 0, d |-> 0]
IntV(n) == [t |-> "int", s |-> <<>>, n |-> n, d |-> 0]
RECURSIVE FloatV(_, _)
FloatV(n, d) ==
  IF d > 0 /\ n % 10 = 0 THEN FloatV(n \div 10, d - 1)
  ELSE [t |-> "float", s |-> <<>>, n |-> n, d |-> d]

RECURSIVE ParseNat(_)
ParseNat(ds) ==
  IF Len(ds) = 0 THEN 0
  ELSE ParseNat(SubSeq(ds, 1, Len(ds) - 1)) * 10 + DigitVal(ds[Len(ds)])
AllDigits(s) == \A i \in 1..Len(s) : IsDigit(s[i])
\* str.isdigit()
IsDigitStr(s) == Len(s) > 0 /\ AllDigits(s)
HasSign(s) == Len(s) > 0 /\ s[1] \in {"+", "-"}
Unsigned(s) == IF HasSign(s) THEN Tail(s) ELSE s
SignOf(s) == IF Len(s) > 0 /\ s[1] = "-" THEN -1 ELSE 1
\* int(value) succeeds: an optional sign and decimal digits (the tokens of the
\* model hold no digit-group underscores and no inner whitespace)
IntParses(s) == IsDigitStr(Unsigned(s))
IntOf(s) == SignOf(s) * ParseNat(Unsigned(s))
\* float(value) succeeds, for a value that holds a '.': an optional sign, digits,
\* one point, digits, with a digit on at least one side (no exponent, inf or nan
\* among the tokens of the model)
FloatParses(s) ==
  LET parts == Split(Unsigned(s), ".")
  IN /\ Len(parts) = 2
     /\ AllDigits(parts[1]) /\ AllDigits(parts[2])
     /\ Len(parts[1]) + Len(parts[2]) > 0
FloatOf(s) ==
  LET parts == Split(Unsigned(s), ".")
  IN FloatV(SignOf(s) * ParseNat(parts[1] \o parts[2]), Len(parts[2]))

kNULL == <<"N","U","L","L">>
SQuote == "'"
DQuote == "\""
IsQuoted(value) ==
  \/ (StartsWith(value, <<SQuote>>) /\ EndsWith(value, <<SQuote>>))
  \/ (StartsWith(value, <<DQuote>>) /\ EndsWith(value, <<DQuote>>))

\* execute_sql_query, INSERT branch: one literal of the VALUES list
CoerceInsertValue(value) ==
  IF Upper(value) = kNULL THEN NullV
  ELSE IF IsQuoted(value) THEN StrV(SubSeq(value, 2, Len(value) - 1))
  ELSE IF Contains(value, <<".">>)
       THEN (IF FloatParses(value) THEN FloatOf(value) ELSE StrV(value))
       ELSE (IF IntParses(value) THEN IntV(IntOf(value)) ELSE StrV(value))

\* a slip in the UPDATE branch: only single quotes are taken off
CoerceSetValue_SingleQuotesOnly(value) ==
  IF Upper(value) = kNULL THEN NullV
  ELSE IF StartsWith(value, <<SQuote>>) /\ EndsWith(value, <<SQuote>>)
       THEN StrV(SubSeq(value, 2, Len(value) - 1))
  ELSE IF Contains(value, <<".">>)
       THEN (IF FloatParses(value) THEN FloatOf(value) ELSE StrV(value))
       ELSE (IF IntParses(value) THEN IntV(IntOf(value)) ELSE StrV(value))

\* execute_sql_query, UPDATE branch: one literal of the SET clause
CoerceSetValue(value) ==
  IF Upper(value) = kNULL THEN NullV
  ELSE IF IsQuoted(value) THEN StrV(SubSeq(value, 2, Len(value) - 1))
  ELSE IF Contains(value, <<".">>)
       THEN (IF FloatParses(value) THEN FloatOf(value) ELSE StrV(value))
       ELSE (IF IntParses(value) THEN IntV(IntOf(value)) ELSE StrV(value))

\* execute_sql_query, UPDATE and DELETE branches: the value of the WHERE equality
CoerceWhereValue(where_value) ==
  IF StartsWith(where_value, <<SQuote>>) /\ EndsWith(where_value, <<SQuote>>)
  THEN StrV(SubSeq(where_value, 2, Len(where_value) - 1))
  ELSE IF IsDigitStr(where_value) THEN IntV(ParseNat(where_value))
  ELSE StrV(where_value)

(***************************************************************************)
(* execute_sql_query: the regular expressions                              *)
(***************************************************************************)
kInsertInto == <<"i","n","s","e","r","t"," ","i","n","t","o">>
kInsert == <<"i","n","s","e","r","t">>
kInto == <<"i","n","t","o">>
kValues == <<"v","a","l","u","e","s">>
kUpdate == <<"u","p","d","a","t","e">>
kSet == <<"s","e","t">>
kWhere == <<"w","h","e","r","e">>
kDeleteFrom == <<"d","e","l","e","t","e"," ","f","r","o","m">>
kDelete == <<"d","e","l","e","t","e">>
kFrom == <<"f","r","o","m">>

NoMatch == [ok |-> FALSE, table |-> <<>>, g2 |-> <<>>, g3 |-> <<>>, has3 |-> FALSE]

\* re.match(r"insert\s+into\s+(\w+)\s*\((.*?)\)\s*values\s*\((.*?)\)", query, re.IGNORECASE)
\* InsertValuesAt(s, e): with the column list closed by the ')' at e, the index of
\* the first character of the VALUES list, or 0
InsertValuesAt(s, e) ==
  Char1(s, Space0(s, MatchCI(s, Space0(s, Char1(s, e, ")")), kValues)), "(")
\* the ')' that closes the VALUES list opened at v: the first one, reached by '.' only
InsertCloseAt(s, v) ==
  LET close == {f \in v..Len(s) : s[f] = ")" /\ DotRun(s, v, f)}
  IN IF v = 0 \/ close = {} THEN 0 ELSE SetMin(close)
InsertMatch(s) ==
  LET p1 == Space1(s, MatchCI(s, 1, kInsert))
      p2 == Space1(s, MatchCI(s, p1, kInto))
      p3 == Word1(s, p2)
      p4 == Char1(s, Space0(s, p3), "(")
      \* (.*?) is lazy: the shortest column list after which the rest matches
      ends == {e \in p4..Len(s) : DotRun(s, p4, e) /\ InsertCloseAt(s, InsertValuesAt(s, e)) # 0}
  IN IF p4 = 0 \/ ends = {} THEN NoMatch
     ELSE LET e == SetMin(ends)
              v == InsertValuesAt(s, e)
          IN [ok |-> TRUE, table |-> SubSeq(s, p2, p3 - 1),
              g2 |-> SubSeq(s, p4, e - 1),
              g3 |-> SubSeq(s, v, InsertCloseAt(s, v) - 1), has3 |-> TRUE]

\* re.match(r"update\s+(\w+)\s+set\s+(.*?)\s+where\s+(.*)", query, re.IGNORECASE)
\* UpdateWhereAt(s, e): with the SET clause ending before e, the index of the
\* first character of the WHERE clause (\s+where\s+ matched from e), or 0
UpdateWhereAt(s, e) == Space1(s, MatchCI(s, Space1(s, e), kWhere))
UpdateMatch(s) ==
  LET p1 == Space1(s, MatchCI(s, 1, kUpdate))
      p2 == Word1(s, p1)
      p3 == MatchCI(s, Space1(s, p2), kSet)
      \* \s+ after SET is greedy and gives characters back only when nothing else
      \* matches; (.*?) is lazy
      ok(a, e) == UpdateWhereAt(s, e) # 0 /\ DotRun(s, a, e)
      starts == {a \in (p3 + 1)..Space0(s, p3) : \E e \in a..Len(s) : ok(a, e)}
  IN IF p3 = 0 \/ starts = {} THEN NoMatch
     ELSE LET a == SetMax(starts)
              e == SetMin({x \in a..Len(s) : ok(a, x)})
              w == UpdateWhereAt(s, e)
          IN [ok |-> TRUE, table |-> SubSeq(s, p1, p2 - 1),
              g2 |-> SubSeq(s, a, e - 1),
              g3 |-> SubSeq(s, w, LineEnd(s, w) - 1), has3 |-> TRUE]

\* re.match(r"delete\s+from\s+(\w+)(?:\s+where\s+(.*))?", query, re.IGNORECASE)
DeleteMatch(s) ==
  LET p1 == Space1(s, MatchCI(s, 1, kDelete))
      p2 == Space1(s, MatchCI(s, p1, kFrom))
      p3 == Word1(s, p2)
      w == Space1(s, MatchCI(s, Space1(s, p3), kWhere))
  IN IF p3 = 0 THEN NoMatch
     ELSE [ok |-> TRUE, table |-> SubSeq(s, p2, p3 - 1), g2 |-> <<>>,
           g3 |-> IF w = 0 THEN <<>> ELSE SubSeq(s, w, LineEnd(s, w) - 1),
           has3 |-> w # 0]

\* re.match(r"(\w+)\s*=\s*(\S+)", where_clause)
WhereMatch(s) ==
  LET p1 == Word1(s, 1)
      p2 == Space0(s, Char1(s, Space0(s, p1), "="))
      p3 == NonSpace1(s, p2)
  IN IF p3 = 0 THEN NoMatch
     ELSE [ok |-> TRUE, table |-> <<>>, g2 |-> SubSeq(s, 1, p1 - 1),
           g3 |-> SubSeq(s, p2, p3 - 1), has3 |-> TRUE]

(***************************************************************************)
(* The database client.  A call either raises, or returns a response whose *)
(* error attribute is set ("error"), whose data holds rows ("rows") or is  *)
(* empty ("empty"), or that has no data attribute ("noattr").  With sb =   *)
(* None (the connection failed at start-up) every use of sb raises before  *)
(* anything is sent.                                                       *)
(***************************************************************************)
Outcomes == {"raise", "error", "rows", "empty", "noattr"}

NoData == [c \in {} |-> NullV]
InsertCall(table, data) ==
  [op |-> "insert", target |-> table, data |-> data, col |-> <<>>, val |-> NullV, sql |-> <<>>]
UpdateCall(table, data, col, val) ==
  [op |-> "update", target |-> table, data |-> data, col |-> col, val |-> val, sql |-> <<>>]
DeleteCall(table, col, val) ==
  [op |-> "delete", target |-> table, data |-> NoData, col |-> col, val |-> val, sql |-> <<>>]
RpcCall(fn, sql) ==
  [op |-> "rpc", target |-> fn, data |-> NoData, col |-> <<>>, val |-> NullV, sql |-> sql]

\* what reaches the database, and what the caller sees
Sent(sbOk, call) == IF sbOk THEN <<call>> ELSE <<>>
Seen(sbOk, outcome) == IF sbOk THEN outcome ELSE "raise"

\* a returned value: a dict with an "error" key, a list of rows, an empty list,
\* a dict with a "message" key, a dict with a "warning" key
Ret(kind, msg) == [kind |-> kind, msg |-> msg]
NoRet == Ret("none", "")
IsErrorObject(r) == r.kind = "error"

\* the course of a function body: it returned ret, or an exception left it
Return(ret, calls) == [exc |-> FALSE, ret |-> ret, calls |-> calls]
Raise(calls) == [exc |-> TRUE, ret |-> NoRet, calls |-> calls]

(***************************************************************************)
(* execute_sql_query                                                       *)
(***************************************************************************)
StripAll(pieces) == [i \in 1..Len(pieces) |-> Strip(pieces[i])]

\* the dict built by the INSERT branch: data[column] = coerced values[i]; a
\* column listed twice keeps its last value
InsertData(columns, values) ==
  [c \in {columns[i] : i \in 1..Len(columns)} |->
     CoerceInsertValue(values[SetMax({i \in 1..Len(columns) : columns[i] = c})])]

\* the dict built by the UPDATE branch from the items of the SET clause that
\* hold an '='
SetItems(set_clause) ==
  LET items == Split(set_clause, ",")
  IN SelectSeq([i \in 1..Len(items) |-> StripAll(Split1(items[i], "="))],
               LAMBDA pr : Len(pr) = 2)
UpdateData(set_clause) ==
  LET prs == SetItems(set_clause)
  IN [c \in {prs[i][1] : i \in 1..Len(prs)} |->
        CoerceSetValue(prs[SetMax({i \in 1..Len(prs) : prs[i][1] = c})][2])]

InsertBranch(m, sbOk, o1) ==
  LET columns == StripAll(Split(m.g2, ","))
      values == StripAll(Split(m.g3, ","))
      call == InsertCall(m.table, InsertData(columns, values))
      out == Seen(sbOk, o1)
  IN IF Len(values) < Len(columns) THEN Raise(<<>>)       \* values[i]: IndexError
     ELSE IF out = "raise" THEN Raise(Sent(sbOk, call))
     ELSE IF out = "error" THEN Return(Ret("error", "Insert failed"), <<call>>)
     ELSE IF out = "rows" THEN Return(Ret("rows", "response.data"), <<call>>)
     ELSE IF out = "empty" THEN Return(Ret("empty_list", "response.data"), <<call>>)
     ELSE Return(Ret("message", "Insert was executed successfully"), <<call>>)

UpdateBranch(m, wm, sbOk, o1) ==
  LET call == UpdateCall(m.table, UpdateData(m.g2), wm.g2, CoerceWhereValue(Strip(wm.g3)))
      out == Seen(sbOk, o1)
  IN IF out = "raise" THEN Raise(Sent(sbOk, call))
     ELSE IF out = "error" THEN Return(Ret("error", "Update failed"), <<call>>)
     ELSE IF out = "rows" THEN Return(Ret("rows", "response.data"), <<call>>)
     ELSE IF out = "empty" THEN Return(Ret("empty_list", "response.data"), <<call>>)
     ELSE Return(Ret("message", "Update was executed successfully"), <<call>>)

DeleteBranch(m, wm, sbOk, o1) ==
  LET call == DeleteCall(m.table, wm.g2, CoerceWhereValue(Strip(wm.g3)))
      out == Seen(sbOk, o1)
  IN IF out = "raise" THEN Raise(Sent(sbOk, call))
     ELSE IF out = "error" THEN Return(Ret("error", "Delete failed"), <<call>>)
     ELSE Return(Ret("message", "Delete was executed successfully"), <<call>>)

\* the message of the passthrough when the database returned no rows
RpcEmptyResult(query) ==
  LET lq == Lower(query)
  IN IF Contains(lq, kInsert) THEN Ret("message", "The insert operation was executed successfully")
     ELSE IF Contains(lq, kUpdate) THEN Ret("message", "The update operation was executed successfully")
     ELSE IF Contains(lq, kDelete) THEN Ret("message", "The delete operation was executed successfully")
     ELSE Ret("empty_list", "[]")

kRunSqlQuery == <<"r","u","n","_","s","q","l","_","q","u","e","r","y">>
kRunSql == <<"r","u","n","_","s","q","l">>

\* a slip in the fallback: run_sql is also called when run_sql_query reported an
\* error
RpcPassthrough_Retry(query, sbOk, o1, o2) ==
  LET first == RpcCall(kRunSqlQuery, query)
      second == RpcCall(kRunSql, query)
      fell == Seen(sbOk, o1) \in {"raise", "error"}
      calls == IF fell THEN Sent(sbOk, first) \o Sent(sbOk, second) ELSE <<first>>
      out == IF fell THEN Seen(sbOk, o2) ELSE o1
  IN IF out = "raise" THEN Raise(calls)
     ELSE IF out = "error" THEN Return(Ret("error", "Database error"), calls)
     ELSE IF out = "rows" THEN Return(Ret("rows", "response.data"), calls)
     ELSE IF out = "empty" THEN Return(RpcEmptyResult(query), calls)
     ELSE Return(Ret("warning", "Query executed but returned no data attribute"), calls)

\* lines 429-451: run_sql_query, and run_sql when that call raised
RpcPassthrough(query, sbOk, o1, o2) ==
  LET first == RpcCall(kRunSqlQuery, query)
      second == RpcCall(kRunSql, query)
      fell == Seen(sbOk, o1) = "raise"
      calls == IF fell THEN Sent(sbOk, first) \o Sent(sbOk, second) ELSE <<first>>
      out == IF fell THEN Seen(sbOk, o2) ELSE o1
  IN IF out = "raise" THEN Raise(calls)
     ELSE IF out = "error" THEN Return(Ret("error", "Database error"), calls)
     ELSE IF out = "rows" THEN Return(Ret("rows", "response.data"), calls)
     ELSE IF out = "empty" THEN Return(RpcEmptyResult(query), calls)
     ELSE Return(Ret("warning", "Query executed but returned no data attribute"), calls)

\* a slip in the dispatch: every statement takes the passthrough
ExecuteSqlBody_PassAll(q, sbOk, o1, o2) ==
  RpcPassthrough(RStripSemi(Strip(q)), sbOk, o1, o2)

\* a slip in the UPDATE branch: when the table update raised or reported an error,
\* the statement goes on to the passthrough
ExecuteSqlBody_FallThrough(q, sbOk, o1, o2) ==
  LET query == RStripSemi(Strip(q))
      m == UpdateMatch(query)
      rpc == RpcPassthrough(query, sbOk, o2, o2)
  IN IF StartsWith(Lower(query), kUpdate) /\ m.ok /\ WhereMatch(m.g3).ok
     THEN (LET b == UpdateBranch(m, WhereMatch(m.g3), sbOk, o1)
           IN IF b.exc \/ IsErrorObject(b.ret)
              THEN [exc |-> rpc.exc, ret |-> rpc.ret, calls |-> b.calls \o rpc.calls]
              ELSE b)
     ELSE rpc

\* lines 281-451, the body of the try block
ExecuteSqlBody(q, sbOk, o1, o2) ==
  LET query == RStripSemi(Strip(q))
      lq == Lower(query)
  IN IF StartsWith(lq, kInsertInto)
     THEN (IF InsertMatch(query).ok THEN InsertBranch(InsertMatch(query), sbOk, o1)
           ELSE RpcPassthrough(query, sbOk, o1, o2))
     ELSE IF StartsWith(lq, kUpdate)
     THEN (LET m == UpdateMatch(query)
           IN IF m.ok /\ WhereMatch(m.g3).ok THEN UpdateBranch(m, WhereMatch(m.g3), sbOk, o1)
              ELSE RpcPassthrough(query, sbOk, o1, o2))
     ELSE IF StartsWith(lq, kDeleteFrom)
     THEN (LET m == DeleteMatch(query)
           IN IF m.ok /\ (~m.has3 \/ m.g3 = <<>>)
              THEN Return(Ret("error", "DELETE without WHERE clause is not allowed for safety"), <<>>)
              ELSE IF m.ok /\ WhereMatch(m.g3).ok THEN DeleteBranch(m, WhereMatch(m.g3), sbOk, o1)
              ELSE RpcPassthrough(query, sbOk, o1, o2))
     ELSE RpcPassthrough(query, sbOk, o1, o2)

\* the function without its catch-all handler
execute_sql_query_Unhandled(q, sbOk, o1, o2) ==
  LET b == ExecuteSqlBody(q, sbOk, o1, o2)
  IN [raised |-> b.exc, ret |-> b.ret, calls |-> b.calls]

\* lines 280 and 453-456: the catch-all handler turns every exception of the body
\* into {"error": "Query failed: ..."}
execute_sql_query(q, sbOk, o1, o2) ==
  LET b == ExecuteSqlBody(q, sbOk, o1, o2)
  IN IF b.exc THEN [raised |-> FALSE, ret |-> Ret("error", "Query failed"), calls |-> b.calls]
     ELSE [raised |-> FALSE, ret |-> b.ret, calls |-> b.calls]

(***************************************************************************)
(* The statements execute_sql_query is applied to                          *)
(***************************************************************************)
\* literal tokens of a VALUES list or a SET clause
Tokens == {
  <<"N","U","L","L">>,   \* NULL
  <<"n","u","l","l">>,   \* null
  <<"N","u","l","l">>,   \* Null
  <<"'","a","b","c","'">>,   \* 'abc'
  <<"\"","a","b","c","\"">>,   \* "abc"
  <<"'","'">>,   \* ''
  <<"'">>,   \* '
  <<"1","2">>,   \* 12
  <<"-","3">>,   \* -3
  <<"+","4">>,   \* +4
  <<"0","0","7">>,   \* 007
  <<"1",".","5">>,   \* 1.5
  <<"-","0",".","5","0">>,   \* -0.50
  <<"1",".">>,   \* 1.
  <<".","5">>,   \* .5
  <<".">>,   \* .
  <<"1",".","2",".","3">>,   \* 1.2.3
  <<"a","b","c">>,   \* abc
  <<"1","2","a","b">>,   \* 12ab
  <<"'","a","\"">>,   \* 'a"
  <<"t","r","u","e">>,   \* true
  <<"'","a"," ","b","'">>,   \* 'a b'
  <<"a","=","b">>   \* a=b
}
\* values of a WHERE equality
WhereTokens == {
  <<"5">>,   \* 5
  <<"'","5","'">>,   \* '5'
  <<"'","a","b","'">>,   \* 'ab'
  <<"\"","a","b","\"">>,   \* "ab"
  <<"-","5">>,   \* -5
  <<"1",".","5">>,   \* 1.5
  <<"N","U","L","L">>,   \* NULL
  <<"'","a"," ","b","'">>,   \* 'a b'
  <<"5",";">>   \* 5;
}
\* the statement shapes of execute_sql_query around one token
InsertTok(tok) == <<"I","N","S","E","R","T"," ","I","N","T","O"," ","t"," ","(","c",")"," ","V","A","L","U","E","S"," ","(">> \o tok \o <<")">>
UpdateTok(tok) == <<"U","P","D","A","T","E"," ","t"," ","S","E","T"," ","c"," ","="," ">> \o tok \o <<" ","W","H","E","R","E"," ","i","d"," ","="," ","1">>
UpdateWhere(w) == <<"U","P","D","A","T","E"," ","t"," ","S","E","T"," ","a"," ","="," ","1"," ","W","H","E","R","E"," ","i","d"," ","="," ">> \o w
DeleteWhere(w) == <<"D","E","L","E","T","E"," ","F","R","O","M"," ","t"," ","W","H","E","R","E"," ","i","d"," ","="," ">> \o w
\* further INSERT statements
InsertStatements == {
  <<"i","n","s","e","r","t"," ","i","n","t","o"," ","t"," ","(","a",","," ","b",")"," ","v","a","l","u","e","s"," ","(","1",","," ","'","x","'",")">>,   \* insert into t (a, b) values (1, 'x')
  <<"I","N","S","E","R","T"," ","I","N","T","O"," ","t"," ","(","a",","," ","b",")"," ","V","A","L","U","E","S"," ","(","1",")">>,   \* INSERT INTO t (a, b) VALUES (1)
  <<"I","N","S","E","R","T"," ","I","N","T","O"," ","t"," ","(","a",")"," ","V","A","L","U","E","S"," ","(","1",","," ","2",")">>,   \* INSERT INTO t (a) VALUES (1, 2)
  <<"I","N","S","E","R","T"," "," ","I","N","T","O"," ","t"," ","(","a",")"," ","V","A","L","U","E","S"," ","(","1",")">>,   \* INSERT  INTO t (a) VALUES (1)
  <<"I","N","S","E","R","T"," ","I","N","T","O"," "," ","t","(","a",")","V","A","L","U","E","S","(","1",")",";">>,   \* INSERT INTO  t(a)VALUES(1);
  <<"I","N","S","E","R","T"," ","I","N","T","O"," ","t"," ","V","A","L","U","E","S"," ","(","1",")">>,   \* INSERT INTO t VALUES (1)
  <<"I","N","S","E","R","T"," ","I","N","T","O"," ","t"," ","(","a",")"," ","V","A","L","U","E","S"," ","(","'","x",",","y","'",")">>,   \* INSERT INTO t (a) VALUES ('x,y')
  <<"I","N","S","E","R","T"," ","I","N","T","O"," ","t"," ","(","a",")"," ","V","A","L","U","E","S"," ","(","'","f","(","x",")","'",")">>,   \* INSERT INTO t (a) VALUES ('f(x)')
  <<"I","N","S","E","R","T"," ","I","N","T","O"," ","t"," ","(","a",")"," ","V","A","L","U","E","S"," ","(","1",")",","," ","(","2",")">>,   \* INSERT INTO t (a) VALUES (1), (2)
  <<"I","N","S","E","R","T"," ","I","N","T","O"," ","t"," ","(","a",","," ","a",")"," ","V","A","L","U","E","S"," ","(","1",","," ","2",")">>,   \* INSERT INTO t (a, a) VALUES (1, 2)
  <<"I","N","S","E","R","T"," ","I","N","T","O"," ","t"," ","(","a",")","\n","V","A","L","U","E","S"," ","(","1",")">>,   \* INSERT INTO t (a)\nVALUES (1)
  <<"I","N","S","E","R","T"," ","I","N","T","O"," ","t"," ","(","a",")"," ","S","E","L","E","C","T"," ","1">>   \* INSERT INTO t (a) SELECT 1
}
\* further UPDATE statements
UpdateStatements == {
  <<"u","p","d","a","t","e"," ","t"," ","s","e","t"," ","a"," ","="," ","1",","," ","b"," ","="," ","'","x","'"," ","w","h","e","r","e"," ","i","d"," ","="," ","5">>,   \* update t set a = 1, b = 'x' where id = 5
  <<"U","P","D","A","T","E"," ","t"," ","S","E","T"," ","a"," ","="," ","1"," ","W","H","E","R","E"," ","i","d"," ","="," ","5"," ","A","N","D"," ","s"," ","="," ","1">>,   \* UPDATE t SET a = 1 WHERE id = 5 AND s = 1
  <<"U","P","D","A","T","E"," ","t"," ","S","E","T"," ","a"," ","="," ","1"," ","W","H","E","R","E"," ","i","d"," ",">"," ","5">>,   \* UPDATE t SET a = 1 WHERE id > 5
  <<"U","P","D","A","T","E"," ","t"," ","S","E","T"," ","a"," ","="," ","1">>,   \* UPDATE t SET a = 1
  <<"U","P","D","A","T","E"," ","t"," ","S","E","T"," ","a","=","1"," ","W","H","E","R","E"," ","i","d","=","5",";">>,   \* UPDATE t SET a=1 WHERE id=5;
  <<"U","P","D","A","T","E"," ","t"," ","S","E","T"," ","a"," ","="," ","'","x",","," ","y","'"," ","W","H","E","R","E"," ","i","d"," ","="," ","5">>,   \* UPDATE t SET a = 'x, y' WHERE id = 5
  <<"U","P","D","A","T","E"," ","t"," ","S","E","T"," "," ","W","H","E","R","E"," ","i","d"," ","="," ","5">>,   \* UPDATE t SET  WHERE id = 5
  <<"U","P","D","A","T","E"," ","t"," ","S","E","T"," ","a"," ","="," ","1"," ","W","H","E","R","E"," ",";">>,   \* UPDATE t SET a = 1 WHERE ;
  <<"U","P","D","A","T","E"," "," ","t"," "," ","S","E","T"," ","a"," ","="," ","1"," "," ","W","H","E","R","E"," "," ","i","d"," ","="," ","5">>,   \* UPDATE  t  SET a = 1  WHERE  id = 5
  <<"U","P","D","A","T","E"," ","t"," ","S","E","T"," ","a"," ","="," ","1","\n","W","H","E","R","E"," ","i","d"," ","="," ","5">>,   \* UPDATE t SET a = 1\nWHERE id = 5
  <<"U","P","D","A","T","E"," ","t"," ","S","E","T"," ","a"," ","W","H","E","R","E"," ","i","d"," ","="," ","5">>   \* UPDATE t SET a WHERE id = 5
}
\* further DELETE statements
DeleteStatements == {
  <<"D","E","L","E","T","E"," ","F","R","O","M"," ","t">>,   \* DELETE FROM t
  <<"d","e","l","e","t","e"," ","f","r","o","m"," ","t">>,   \* delete from t
  <<"D","e","l","e","t","e"," ","F","r","o","m"," ","t",";">>,   \* Delete From t;
  <<"D","E","L","E","T","E"," "," ","F","R","O","M"," ","t">>,   \* DELETE  FROM t
  <<"D","E","L","E","T","E","\t","F","R","O","M"," ","t">>,   \* DELETE\tFROM t
  <<"D","E","L","E","T","E","\n","F","R","O","M"," ","t">>,   \* DELETE\nFROM t
  <<"D","E","L","E","T","E"," ","F","R","O","M"," "," ","t">>,   \* DELETE FROM  t
  <<"D","E","L","E","T","E"," ","F","R","O","M"," ","\"","t","\"">>,   \* DELETE FROM "t"
  <<"D","E","L","E","T","E"," ","F","R","O","M"," ","t"," ","W","H","E","R","E">>,   \* DELETE FROM t WHERE
  <<"D","E","L","E","T","E"," ","F","R","O","M"," ","t"," ","W","H","E","R","E"," ",";">>,   \* DELETE FROM t WHERE ;
  <<"D","E","L","E","T","E"," ","F","R","O","M"," ","t"," ","u">>,   \* DELETE FROM t u
  <<"D","E","L","E","T","E"," ","F","R","O","M"," ","s",".","t"," ","W","H","E","R","E"," ","i","d"," ","="," ","5">>,   \* DELETE FROM s.t WHERE id = 5
  <<"-","-"," ","x","\n","D","E","L","E","T","E"," ","F","R","O","M"," ","t">>,   \* -- x\nDELETE FROM t
  <<"W","I","T","H"," ","x"," ","A","S"," ","(","S","E","L","E","C","T"," ","1",")"," ","D","E","L","E","T","E"," ","F","R","O","M"," ","t">>,   \* WITH x AS (SELECT 1) DELETE FROM t
  <<"D","E","L","E","T","E"," ","F","R","O","M"," ","t"," ","W","H","E","R","E"," ","i","d"," ",">"," ","5">>,   \* DELETE FROM t WHERE id > 5
  <<"D","E","L","E","T","E"," ","F","R","O","M"," ","t"," ","W","H","E","R","E"," ","i","d"," ","="," ","5"," ","A","N","D"," ","s"," ","="," ","1">>,   \* DELETE FROM t WHERE id = 5 AND s = 1
  <<"D","E","L","E","T","E"," ","F","R","O","M"," ","t"," ","W","H","E","R","E"," ","i","d","=","5">>,   \* DELETE FROM t WHERE id=5
  <<"d","e","l","e","t","e"," ","f","r","o","m"," ","t"," ","w","h","e","r","e"," ","i","d"," ","="," ","5",";">>,   \* delete from t where id = 5;
  <<"D","E","L","E","T","E"," ","F","R","O","M"," ","t","\n","W","H","E","R","E"," ","i","d"," ","="," ","5">>,   \* DELETE FROM t\nWHERE id = 5
  <<" ","D","E","L","E","T","E"," ","F","R","O","M"," ","t"," ">>   \*  DELETE FROM t 
}
\* SELECT and other statements
OtherStatements == {
  <<"S","E","L","E","C","T"," ","*"," ","F","R","O","M"," ","t">>,   \* SELECT * FROM t
  <<"S","E","L","E","C","T"," ","i","d",","," ","a","u","d","i","o","_","u","r","l"," ","F","R","O","M"," ","r","e","f","u","n","d","_","r","e","q","u","e","s","t","s"," ","W","H","E","R","E"," ","a","u","d","i","o","_","u","r","l"," ","I","S"," ","N","O","T"," ","N","U","L","L">>,   \* SELECT id, audio_url FROM refund_requests WHERE audio_url IS NOT NULL
  <<"S","E","L","E","C","T"," ","1"," ",";">>,   \* SELECT 1 ;
  <<" ","S","E","L","E","C","T"," ","1",";"," ">>,   \*  SELECT 1; 
  <<"S","E","L","E","C","T"," ","1",";",";">>,   \* SELECT 1;;
  <<"S","E","L","E","C","T"," ","u","p","d","a","t","e","d","_","a","t"," ","F","R","O","M"," ","t">>,   \* SELECT updated_at FROM t
  <<"S","E","L","E","C","T"," ","*"," ","F","R","O","M"," ","i","n","s","e","r","t","s">>,   \* SELECT * FROM inserts
  <<"S","E","L","E","C","T"," ","d","e","l","e","t","e","d"," ","F","R","O","M"," ","t">>,   \* SELECT deleted FROM t
  <<>>,   \* (empty)
  <<";">>,   \* ;
  <<"D","R","O","P"," ","T","A","B","L","E"," ","t">>   \* DROP TABLE t
}

Statements ==
  {InsertTok(tok) : tok \in Tokens} \cup {UpdateTok(tok) : tok \in Tokens}
  \cup {UpdateWhere(w) : w \in WhereTokens} \cup {DeleteWhere(w) : w \in WhereTokens}
  \cup InsertStatements \cup UpdateStatements \cup DeleteStatements \cup OtherStatements

(***************************************************************************)
(* State                                                                   *)
(***************************************************************************)
VARIABLES
  sb,        \* the module-level database client: "client", or "None" when create_client failed
  pc,        \* where the program is
  query,     \* the statement given to execute_sql_query
  outs,      \* the outcomes of the database-client calls of the invocation
  result,    \* what execute_sql_query did: [raised, ret, calls]
  job,       \* the function that runs: "audio", "summary", "receipts", "bucket", "storage"
  urls,      \* its input list
  idx,       \* the index of the item the loop is at
  results,   \* the result records appended so far
  attempted, \* the items whose processing was started
  summarized,      \* the items summarize_text was called for
  transcripts,     \* what transcribe_audio answered for each item, NoTranscript when not called
  processed_files, \* process_audio_urls: the paths of the files downloaded and not yet deleted
  written,   \* the audio files written to the scratch directory during the call
  fs,        \* the scratch directory temp_audio: [dir, files]
  unlinkOk,  \* whether deleting a file succeeds on this machine
  writes,    \* the rows written to refund_requests
  returned,  \* how the batch function ended
  extracted, \* the amount extracted for each receipt whose processing started
  user_input,  \* the line the command-line loop read
  response     \* what handle_request did with it: [exc, ret, called, sqls, args, schema, answer]

sqlVars == <<query, outs, result>>
mediaVars == <<job, urls, idx, results, attempted, summarized, transcripts, processed_files,
               written, fs, unlinkOk, writes, returned, extracted>>
mainVars == <<user_input, response>>
vars == <<sb, pc, query, outs, result, job, urls, idx, results, attempted, summarized,
          transcripts, processed_files, written, fs, unlinkOk, writes, returned, extracted,
          user_input, response>>

NoResult == [raised |-> FALSE, ret |-> NoRet, calls |-> <<>>]
NoDir == [dir |-> FALSE, files |-> {}]
MediaIdle ==
  /\ job = "none" /\ urls = <<>> /\ idx = 1 /\ results = <<>> /\ attempted = <<>>
  /\ summarized = <<>> /\ transcripts = <<>> /\ processed_files = <<>> /\ written = {}
  /\ fs = NoDir
  /\ unlinkOk = TRUE /\ writes = <<>> /\ returned = "none" /\ extracted = <<>>
SqlIdle == query = <<>> /\ outs = <<>> /\ result = NoResult
NoResponse ==
  [exc |-> FALSE, ret |-> NoRet, called |-> <<>>, sqls |-> <<>>, args |-> <<>>, schema |-> "none",
   answer |-> [h |-> "none", text |-> <<>>]]
MainIdle == user_input = <<>> /\ response = NoResponse

(***************************************************************************)
(* SpecSql: execute_sql_query applied to one statement                     *)
(***************************************************************************)
InitSql ==
  /\ sb \in {"client", "None"}
  /\ pc = "call"
  /\ query \in Statements
  /\ outs = <<>>
  /\ result = NoResult
  /\ MediaIdle
  /\ MainIdle

\* one invocation; o2 is the outcome of the fallback RPC call, drawn when the
\* first call raised
ExecuteSqlQuery ==
  /\ pc = "call"
  /\ \E o1 \in (IF sb = "client" THEN Outcomes ELSE {"raise"}) :
       \E o2 \in (IF sb = "client" /\ o1 = "raise" THEN Outcomes ELSE {"raise"}) :
         /\ outs' = <<o1, o2>>
         /\ result' = execute_sql_query(query, sb = "client", o1, o2)
  /\ pc' = "done"
  /\ UNCHANGED <<sb, query>>
  /\ UNCHANGED <<mediaVars, mainVars>>

NextSql == ExecuteSqlQuery
SpecSql == InitSql /\ [][NextSql]_vars

(***************************************************************************)
(* Claims about execute_sql_query (SpecSql)                                *)
(***************************************************************************)
kT == <<"t">>
kC == <<"c">>
kId == <<"i","d">>
SqlDone == pc = "done"
Failed(o) == o \in {"raise", "error"}
\* a database-client call of the invocation failed: the client is None, or a
\* call that was made raised or reported an error
SomeCallFailed ==
  \/ sb = "None"
  \/ \E i \in 1..Len(result.calls) : Failed(outs[i])
\* the last call that was made failed
LastCallFailed ==
  \/ sb = "None"
  \/ (result.calls # <<>> /\ Failed(outs[Len(result.calls)]))

IsDeleteFrom(q) ==
  \E i \in 1..Len(q) :
    /\ (i = 1 \/ ~IsWord(q[i - 1]))
    /\ MatchCI(q, Space1(q, MatchCI(q, i, kDelete)), kFrom) # 0
DeleteWithoutWhere(q) == IsDeleteFrom(q) /\ ~Contains(Lower(q), kWhere)

\* C3: a DELETE without WHERE is never sent to the database, in any spelling; the
\* function returns the error 'DELETE without WHERE clause is not allowed for safety'
C3_DeleteWithoutWhereBlocked ==
  SqlDone /\ DeleteWithoutWhere(query) =>
    /\ result.calls = <<>>
    /\ (sb = "client" =>
          result.ret = Ret("error", "DELETE without WHERE clause is not allowed for safety"))

\* an INSERT of the claimed shape with fewer values than columns
ShortInserts == {
  <<"I","N","S","E","R","T"," ","I","N","T","O"," ","t"," ","(","a",","," ","b",")"," ","V","A","L","U","E","S"," ","(","1",")">>   \* INSERT INTO t (a, b) VALUES (1)
}
\* INSERT, UPDATE and DELETE statements that the regular expressions do not match
UnmatchedStatements == {
  <<"I","N","S","E","R","T"," "," ","I","N","T","O"," ","t"," ","(","a",")"," ","V","A","L","U","E","S"," ","(","1",")">>,   \* INSERT  INTO t (a) VALUES (1)
  <<"I","N","S","E","R","T"," ","I","N","T","O"," ","t"," ","V","A","L","U","E","S"," ","(","1",")">>,   \* INSERT INTO t VALUES (1)
  <<"I","N","S","E","R","T"," ","I","N","T","O"," ","t"," ","(","a",")"," ","S","E","L","E","C","T"," ","1">>,   \* INSERT INTO t (a) SELECT 1
  <<"U","P","D","A","T","E"," ","t"," ","S","E","T"," ","a"," ","="," ","1"," ","W","H","E","R","E"," ","i","d"," ",">"," ","5">>,   \* UPDATE t SET a = 1 WHERE id > 5
  <<"U","P","D","A","T","E"," ","t"," ","S","E","T"," ","a"," ","="," ","1">>,   \* UPDATE t SET a = 1
  <<"U","P","D","A","T","E"," ","t"," ","S","E","T"," ","a"," ","="," ","1"," ","W","H","E","R","E"," ",";">>,   \* UPDATE t SET a = 1 WHERE ;
  <<"D","E","L","E","T","E"," "," ","F","R","O","M"," ","t">>,   \* DELETE  FROM t
  <<"D","E","L","E","T","E","\t","F","R","O","M"," ","t">>,   \* DELETE\tFROM t
  <<"D","E","L","E","T","E","\n","F","R","O","M"," ","t">>,   \* DELETE\nFROM t
  <<"D","E","L","E","T","E"," ","F","R","O","M"," ","\"","t","\"">>,   \* DELETE FROM "t"
  <<"-","-"," ","x","\n","D","E","L","E","T","E"," ","F","R","O","M"," ","t">>,   \* -- x\nDELETE FROM t
  <<"W","I","T","H"," ","x"," ","A","S"," ","(","S","E","L","E","C","T"," ","1",")"," ","D","E","L","E","T","E"," ","F","R","O","M"," ","t">>,   \* WITH x AS (SELECT 1) DELETE FROM t
  <<"D","E","L","E","T","E"," ","F","R","O","M"," ","t"," ","W","H","E","R","E"," ","i","d"," ",">"," ","5">>   \* DELETE FROM t WHERE id > 5
}

\* the filter value of a WHERE equality on a plain literal
SimpleWhere == { <<"5">>, <<"'","5","'">>, <<"'","a","b","'">> }
SimpleWhereValue(w) ==
  IF w = <<"5">> THEN IntV(5)
  ELSE IF w = <<"'","5","'">> THEN StrV(<<"5">>)
  ELSE StrV(<<"a","b">>)

OneCall(op, table) ==
  /\ Len(result.calls) = 1
  /\ result.calls[1].op = op
  /\ result.calls[1].target = table
FilteredBy(col, val) == result.calls[1].col = col /\ result.calls[1].val = val

\* the three structured shapes go to the table call of their kind
C4_Structured ==
  /\ (query \in {InsertTok(tok) : tok \in Tokens} => OneCall("insert", kT))
  /\ (query \in {UpdateTok(tok) : tok \in Tokens} =>
        OneCall("update", kT) /\ FilteredBy(kId, IntV(1)))
  /\ \A w \in SimpleWhere :
        /\ (query = UpdateWhere(w) => OneCall("update", kT) /\ FilteredBy(kId, SimpleWhereValue(w)))
        /\ (query = DeleteWhere(w) => OneCall("delete", kT) /\ FilteredBy(kId, SimpleWhereValue(w)))

\* the input with surrounding whitespace and trailing semicolons removed
TrimmedOfSpaceAndSemicolons(q) ==
  LET keep == {i \in 1..Len(q) : ~IsSpace(q[i]) /\ q[i] # ";"}
      first == {i \in 1..Len(q) : ~IsSpace(q[i])}
  IN IF keep = {} THEN <<>> ELSE SubSeq(q, SetMin(first), SetMax(keep))
PassedAs(text) ==
  /\ result.calls # <<>>
  /\ result.calls[1] = RpcCall(kRunSqlQuery, text)
  /\ \A i \in 1..Len(result.calls) : result.calls[i].op = "rpc" /\ result.calls[i].sql = text

EnclosedInQuotes(tok) ==
  /\ Len(tok) >= 2
  /\ tok[1] = tok[Len(tok)]
  /\ tok[1] \in {SQuote, DQuote}
ClaimedValue(tok) ==
  IF Upper(tok) = kNULL THEN NullV
  ELSE IF EnclosedInQuotes(tok) THEN StrV(SubSeq(tok, 2, Len(tok) - 1))
  ELSE IF Contains(tok, <<".">>) /\ FloatParses(tok) THEN FloatOf(tok)
  ELSE IF ~Contains(tok, <<".">>) /\ IntParses(tok) THEN IntV(IntOf(tok))
  ELSE StrV(tok)
\* the same, with a lone quote character counted as an empty quoted string
AmendedValue(tok) ==
  IF tok \in {<<SQuote>>, <<DQuote>>} THEN StrV(<<>>) ELSE ClaimedValue(tok)
DataIs(col, val) ==
  /\ Len(result.calls) = 1
  /\ DOMAIN result.calls[1].data = {col}
  /\ result.calls[1].data[col] = val

\* C5 as stated: NULL, quoted, float, int and raw tokens are coerced by the rule,
\* and the INSERT and the UPDATE branch give the same value for the same token
C5_Original ==
  SqlDone /\ sb = "client" =>
    \A tok \in Tokens :
      /\ (query = InsertTok(tok) => DataIs(kC, ClaimedValue(tok)))
      /\ (query = UpdateTok(tok) => DataIs(kC, ClaimedValue(tok)))

\* C5 (amended): the same rule, where a token that is one quote character also
\* counts as quoted and becomes the empty string
C5_Coercion ==
  SqlDone /\ sb = "client" =>
    \A tok \in Tokens :
      /\ (query = InsertTok(tok) => DataIs(kC, AmendedValue(tok)))
      /\ (query = UpdateTok(tok) => DataIs(kC, AmendedValue(tok)))
C5_Witness ==
  /\ SqlDone /\ sb = "client"
  /\ query = UpdateTok(<<"1",".","5">>)
  /\ DataIs(kC, [t |-> "float", s |-> <<>>, n |-> 15, d |-> 1])


(***************************************************************************)
(* The batch functions: process_audio_urls and process_receipt_images of   *)
(* agent.py, populate_refund_requests_from_bucket of image.py.  One action *)
(* is one pass of the loop; the downloads, the speech model, the language  *)
(* model and the database answer with any of their outcomes.  A file of    *)
(* the scratch directory is named by the index of the URL it was           *)
(* downloaded for (the program draws a random name), <<0>> is a file that  *)
(* was there before the call, and <<>> is the path None.                   *)
(***************************************************************************)
MaxUrls == 3
UrlLists == UNION {[1..n -> {"u1", "u2"}] : n \in 0..MaxUrls}
NoPath == <<>>

\* cleanup_temp_files(file_list): unlink each listed file that exists
cleanup_temp_files_list(f, file_list, ok) ==
  [f EXCEPT !.files = IF ok THEN @ \ {file_list[i] : i \in DOMAIN file_list} ELSE @]
\* a slip in cleanup_temp_files(temp_dir): the files of the directory are left alone
cleanup_temp_files_dir_KeepFiles(f, ok) == f
\* cleanup_temp_files(temp_dir): unlink every file of the directory, and remove
\* the directory when a file was removed and none is left
cleanup_temp_files_dir(f, ok) ==
  IF ~f.dir THEN f
  ELSE LET files_removed == IF ok THEN Cardinality(f.files) ELSE 0
           left == IF ok THEN {} ELSE f.files
       IN [dir |-> ~(files_removed > 0 /\ left = {}), files |-> left]
\* ensure_temp_dir(): the directory emptied and made; mk is whether makedirs succeeds
ensure_temp_dir(f, ok, mk) ==
  LET f1 == IF f.dir THEN cleanup_temp_files_dir(f, ok) ELSE f
  IN IF mk THEN [path |-> TRUE, fs |-> [f1 EXCEPT !.dir = TRUE]]
     ELSE [path |-> FALSE, fs |-> f1]

\* download_audio_safer: the answer of the server and of the disk
DownloadOutcomes == {"http_error", "write_failed", "empty", "unreadable", "ok"}
download_audio_safer(f, name, d, ok) ==
  LET made == [f EXCEPT !.dir = TRUE]
      kept == [made EXCEPT !.files = @ \cup {name}]
  IN IF d = "http_error" THEN [path |-> NoPath, fs |-> f]
     ELSE IF d = "write_failed" THEN [path |-> NoPath, fs |-> kept]
     ELSE IF d = "empty" THEN [path |-> NoPath, fs |-> IF ok THEN made ELSE kept]
     ELSE IF d = "unreadable" THEN [path |-> NoPath, fs |-> kept]
     ELSE [path |-> name, fs |-> kept]

\* transcribe_audio: a text, which is an "Error..." message when it failed, or
\* a value that is no string (the fallback's JSON held "text": null)
kError == <<"E","r","r","o","r">>
Transcripts == {
  <<"R","e","f","u","n","d"," ","f","o","r"," ","o","r","d","e","r"," ","5">>,   \* Refund for order 5
  <<"E","r","r","o","r",":"," ","A","u","d","i","o"," ","f","i","l","e"," ","i","s"," ","e","m","p","t","y",".">>,   \* Error: Audio file is empty.
  <<"E","r","r","o","r","s"," ","o","n"," ","m","y"," ","b","i","l","l">>,   \* Errors on my bill
  <<>>   \* (empty)
}
NoTranscript == [kind |-> "none", text |-> <<>>]
\* kind "failed" is a message of transcribe_audio itself (here the one of line
\* 601), kind "text" is what the speech model heard (lines 611 and 659)
TranscribeOutcomes ==
  {[kind |-> IF StartsWith(x, kError \o <<":">>) THEN "failed" ELSE "text", text |-> x] :
     x \in Transcripts}
  \cup {[kind |-> "not_str", text |-> <<>>]}

\* process_audio_urls, lines 869-918: the status of the record appended for a URL
AudioStatus(local_path, tr) ==
  IF local_path = NoPath THEN "download_failed"
  ELSE IF tr.kind = "not_str" THEN "error"
  ELSE IF StartsWith(tr.text, kError) THEN "transcription_failed"
  ELSE "success"

\* a slip in the loops: only a success leaves a record
Appended_OnlySuccess(list, url, status) ==
  IF status = "success" THEN Append(list, [url |-> url, status |-> status]) ELSE list
\* results.append({"url": url, "status": status, ...}) of both loops
Appended(list, url, status) == Append(list, [url |-> url, status |-> status])

\* process_audio_urls, lines 854-863: the FFmpeg check and ensure_temp_dir
AudioStart ==
  /\ job = "audio" /\ pc = "start"
  /\ \E ffmpeg \in BOOLEAN, mk \in BOOLEAN :
       LET e == ensure_temp_dir(fs, unlinkOk, mk)
       IN IF ~ffmpeg
          THEN /\ returned' = "error_ffmpeg" /\ pc' = "done" /\ fs' = fs
          ELSE /\ fs' = e.fs
               /\ returned' = (IF e.path THEN returned ELSE "error_tempdir")
               /\ pc' = (IF e.path THEN "loop" ELSE "done")
  /\ UNCHANGED <<sb, job, urls, idx, results, attempted, summarized, transcripts, processed_files,
                 written, unlinkOk, writes, extracted>>
  /\ UNCHANGED <<sqlVars, mainVars>>

\* process_audio_urls, lines 866-929: one pass of the loop
AudioItem ==
  /\ job = "audio" /\ pc = "loop" /\ idx <= Len(urls)
  /\ \E d \in DownloadOutcomes :
       \E tr \in (IF d = "ok" THEN TranscribeOutcomes ELSE {NoTranscript}) :
         LET url == urls[idx]
             dl == download_audio_safer(fs, <<idx>>, d, unlinkOk)
             local_path == dl.path
             status == AudioStatus(local_path, tr)
             listed == IF local_path # NoPath THEN Append(processed_files, local_path)
                       ELSE processed_files
             \* the two failure branches end in continue: lines 921-929 are skipped
             cleans == status \in {"success", "error"} /\ local_path \in dl.fs.files
         IN /\ results' = Appended(results, url, status)
            /\ summarized' = (IF status = "success" THEN Append(summarized, url) ELSE summarized)
            /\ transcripts' = Append(transcripts, tr)
            /\ written' = written \cup (dl.fs.files \ fs.files)
            /\ fs' = (IF cleans /\ unlinkOk
                      THEN [dl.fs EXCEPT !.files = @ \ {local_path}] ELSE dl.fs)
            /\ processed_files' = (IF cleans /\ unlinkOk
                                   THEN SelectSeq(listed, LAMBDA p : p # local_path)
                                   ELSE listed)
            /\ attempted' = Append(attempted, url)
  /\ idx' = idx + 1
  /\ UNCHANGED <<sb, pc, job, urls, unlinkOk, writes, returned, extracted>>
  /\ UNCHANGED <<sqlVars, mainVars>>

\* process_audio_urls, lines 930-938: the finally block and the return
AudioReturn ==
  /\ job = "audio" /\ pc = "loop" /\ idx > Len(urls)
  /\ fs' = cleanup_temp_files_dir(
             IF processed_files # <<>>
             THEN cleanup_temp_files_list(fs, processed_files, unlinkOk) ELSE fs,
             unlinkOk)
  /\ returned' = "results"
  /\ pc' = "done"
  /\ UNCHANGED <<sb, job, urls, idx, results, attempted, summarized, transcripts, processed_files,
                 written, unlinkOk, writes, extracted>>
  /\ UNCHANGED <<sqlVars, mainVars>>

\* handle_audio_request, lines 970-972: the finally block, cleanup_temp_files()
\* of the same directory once process_audio_urls has returned
HandleAudioFinally ==
  /\ job = "audio" /\ pc = "done"
  /\ fs' = cleanup_temp_files_dir(fs, unlinkOk)
  /\ pc' = "finished"
  /\ UNCHANGED <<sb, job, urls, idx, results, attempted, summarized, transcripts, processed_files,
                 written, unlinkOk, writes, returned, extracted>>
  /\ UNCHANGED <<sqlVars, mainVars>>

\* get_audio_summary, lines 705-710, for the one file urls names: the
\* transcript is summarised unless it starts with "Error"; startswith of a
\* value that is no string raises AttributeError
GetAudioSummary ==
  /\ job = "summary" /\ pc = "loop"
  /\ \E tr \in TranscribeOutcomes :
       /\ transcripts' = Append(transcripts, tr)
       /\ attempted' = Append(attempted, urls[1])
       /\ IF tr.kind = "not_str"
          THEN summarized' = summarized /\ returned' = "raised"
          ELSE IF StartsWith(tr.text, kError)
          THEN summarized' = summarized /\ returned' = "transcript"
          ELSE summarized' = Append(summarized, urls[1]) /\ returned' = "summary"
  /\ pc' = "done"
  /\ UNCHANGED <<sb, job, urls, idx, results, processed_files, written, fs, unlinkOk, writes,
                 extracted>>
  /\ UNCHANGED <<sqlVars, mainVars>>

(***************************************************************************)
(* Receipts: the amount read from the language model's answer              *)
(***************************************************************************)
\* the answers of the image fetch and of the language model
ReceiptTexts == {
  <<"T","h","e"," ","t","o","t","a","l"," ","i","s"," ","$","1",",","2","3","4",".","5","0">>,   \* The total is $1,234.50
  <<"T","o","t","a","l",":"," ","4","5">>,   \* Total: 45
  <<"N","o"," ","t","o","t","a","l"," ","i","s"," ","v","i","s","i","b","l","e">>,   \* No total is visible
  <<"S","o","r","r","y",","," ","n","o"," ","t","o","t","a","l">>   \* Sorry, no total
}
ExtractOutcomes ==
  {[kind |-> k, text |-> <<>>] :
     k \in {"fetch_failed", "post_raised", "non200", "no_key", "no_candidates"}}
  \cup {[kind |-> "text", text |-> x] : x \in ReceiptTexts}

\* re.search(r"\$?\s?([\d,]+\.?\d*)", response_text).group(1), <<>> without a match
IsAmountChar(c) == IsDigit(c) \/ c = ","
AmountGroup(text) ==
  LET starts == {i \in 1..Len(text) : IsAmountChar(text[i])}
  IN IF starts = {} THEN <<>>
     ELSE LET a == SetMin(starts)
              b == SetMax({j \in a..Len(text) : \A k \in a..j : IsAmountChar(text[k])})
              c == IF b < Len(text) /\ text[b + 1] = "." THEN b + 1 ELSE b
              d == SetMax({j \in c..Len(text) : \A k \in (c + 1)..j : IsDigit(text[k])})
          IN SubSeq(text, a, d)
\* the course of an extraction: a float, None, or an exception
Amount(v) == [exc |-> FALSE, amount |-> v]
AmountRaise == [exc |-> TRUE, amount |-> NullV]
\* float(amount_str), after the two replace calls and the join
AmountFloat(group) ==
  LET amount_str == SelectSeq(group, LAMBDA ch : IsDigit(ch) \/ ch = ".")
  IN IF Contains(amount_str, <<".">>)
     THEN (IF FloatParses(amount_str) THEN Amount(FloatOf(amount_str)) ELSE AmountRaise)
     ELSE (IF IsDigitStr(amount_str) THEN Amount(FloatV(ParseNat(amount_str), 0))
           ELSE AmountRaise)
\* image.py, extract_amount_from_receipt: only KeyError is handled
image_extract_amount_from_receipt(r) ==
  IF r.kind \in {"fetch_failed", "post_raised", "no_candidates"} THEN AmountRaise
  ELSE IF r.kind \in {"non200", "no_key"} THEN Amount(NullV)
  ELSE IF AmountGroup(r.text) = <<>> THEN Amount(NullV)
  ELSE AmountFloat(AmountGroup(r.text))
\* agent.py, extract_amount_from_receipt: the same body inside a catch-all handler
extract_amount_from_receipt(r) ==
  IF image_extract_amount_from_receipt(r).exc THEN Amount(NullV)
  ELSE image_extract_amount_from_receipt(r)

\* the row both programs insert into refund_requests
ReceiptRow(image_url, amount) == [image_url |-> image_url, amount |-> amount]

\* process_receipt_images, lines 1040-1098: one pass of the loop
ReceiptItem ==
  /\ job = "receipts" /\ pc = "loop" /\ idx <= Len(urls)
  /\ \E r \in ExtractOutcomes :
       LET image_url == urls[idx]
           amount == extract_amount_from_receipt(r).amount
       IN \E o \in (IF amount # NullV /\ sb = "client" THEN Outcomes ELSE {"raise"}) :
            LET status == IF amount = NullV THEN "extraction_failed"
                          ELSE IF sb = "client" /\ o = "rows" THEN "success"
                          ELSE "db_save_failed"
            IN /\ results' = Appended(results, image_url, status)
               /\ writes' = (IF amount # NullV /\ sb = "client"
                             THEN Append(writes, ReceiptRow(image_url, amount)) ELSE writes)
               /\ attempted' = Append(attempted, image_url)
               /\ extracted' = Append(extracted, extract_amount_from_receipt(r))
  /\ idx' = idx + 1
  /\ UNCHANGED <<sb, pc, job, urls, summarized, transcripts, processed_files, written, fs, unlinkOk,
                 returned>>
  /\ UNCHANGED <<sqlVars, mainVars>>

\* process_receipt_images, line 1100
ReceiptReturn ==
  /\ job = "receipts" /\ pc = "loop" /\ idx > Len(urls)
  /\ returned' = "results"
  /\ pc' = "done"
  /\ UNCHANGED <<sb, job, urls, idx, results, attempted, summarized, transcripts, processed_files,
                 written, fs, unlinkOk, writes, extracted>>
  /\ UNCHANGED <<sqlVars, mainVars>>

\* image.py, populate_refund_requests_from_bucket: the files it is written for
image_files == <<"refund_req1.png", "refund_req2.png", "refund_req3.png">>

\* the loop of populate_refund_requests_from_bucket, lines 88-110: one pass
BucketItem ==
  /\ job = "bucket" /\ pc = "loop" /\ idx <= Len(urls)
  /\ \E r \in ExtractOutcomes :
       LET e == image_extract_amount_from_receipt(r)
       IN \E o \in (IF ~e.exc /\ e.amount # NullV THEN {"raise", "rows"} ELSE {"raise"}) :
            /\ attempted' = Append(attempted, urls[idx])
            /\ extracted' = Append(extracted, e)
            /\ writes' = (IF ~e.exc /\ e.amount # NullV
                          THEN Append(writes, ReceiptRow(urls[idx], e.amount)) ELSE writes)
            \* the exception of line 95 leaves the function, and the module
            /\ pc' = (IF e.exc THEN "done" ELSE pc)
            /\ returned' = (IF e.exc THEN "raised" ELSE returned)
  /\ idx' = idx + 1
  /\ UNCHANGED <<sb, job, urls, results, summarized, transcripts, processed_files, written, fs, unlinkOk>>
  /\ UNCHANGED <<sqlVars, mainVars>>

\* populate_refund_requests_from_bucket ran off the end of its loop
BucketReturn ==
  /\ job = "bucket" /\ pc = "loop" /\ idx > Len(urls)
  /\ returned' = "None"
  /\ pc' = "done"
  /\ UNCHANGED <<sb, job, urls, idx, results, attempted, summarized, transcripts, processed_files,
                 written, fs, unlinkOk, writes, extracted>>
  /\ UNCHANGED <<sqlVars, mainVars>>

(***************************************************************************)
(* fetch_and_process_storage_receipts.  A pass of its loop is followed     *)
(* from one external call to the next.  urls holds the two arguments,      *)
(* extracted the amount and the URL the pass goes on with, writes the      *)
(* calls that reached the database, table calls and those made by          *)
(* execute_sql_query alike, and result what execute_sql_query returned     *)
(* last.  A response whose error is set holds no rows.                     *)
(***************************************************************************)
\* the arguments start_num and end_num
Ranges == {<<1, 0>>, <<2, 1>>, <<3, 3>>, <<1, 2>>}
\* a slip in the loop header: range(start_num, end_num)
Range_Exclusive(start_num, end_num) ==
  [k \in 1..(IF end_num > start_num THEN end_num - start_num ELSE 0) |-> start_num + k - 1]
\* line 1145: range(start_num, end_num + 1)
Range(start_num, end_num) ==
  [k \in 1..(IF end_num >= start_num THEN end_num - start_num + 1 ELSE 0) |-> start_num + k - 1]

\* str(i) of a non-negative int
RECURSIVE NatStr(_)
NatStr(n) ==
  IF n < 10 THEN <<DigitChars[n + 1]>>
  ELSE NatStr(n \div 10) \o <<DigitChars[(n % 10) + 1]>>
\* f"{amount}": the repr of a float that needs no exponent, None for None
FloatStr(v) ==
  IF v.t = "null" THEN <<"N","o","n","e">>
  ELSE LET ds == NatStr(v.n)
           padded == IF Len(ds) <= v.d THEN [k \in 1..(v.d + 1 - Len(ds)) |-> "0"] \o ds ELSE ds
           cut == Len(padded) - v.d
       IN IF v.d = 0 THEN ds \o <<".","0">>
          ELSE SubSeq(padded, 1, cut) \o <<".">> \o SubSeq(padded, cut + 1, Len(padded))

\* the environment variable SUPABASE_URL, line 197
SUPABASE_URL == <<"h","t","t","p","s",":","/","/","s","b",".","c","o">>
image_name(i) == <<"r","e","f","u","n","d","_","r","e","q">> \o NatStr(i) \o <<".","p","n","g">>
image_url(i) == SUPABASE_URL \o <<"/","s","t","o","r","a","g","e","/","v","1","/","o","b","j","e","c","t","/","p","u","b","l","i","c","/","r","e","c","e","i","p","t","s","/">> \o image_name(i)
alternative_url(i) == SUPABASE_URL \o <<"/","s","t","o","r","a","g","e","/","v","1","/","r","e","n","d","e","r","/","i","m","a","g","e","/","p","u","b","l","i","c","/","r","e","c","e","i","p","t","s","/">> \o image_name(i)
kRefundRequests == <<"r","e","f","u","n","d","_","r","e","q","u","e","s","t","s">>
update_data(url, amount) == (<<"i","m","a","g","e","_","u","r","l">> :> StrV(url)) @@ (<<"a","m","o","u","n","t">> :> amount)
insert_data(i, url, amount) == (<<"i","d">> :> IntV(i)) @@ update_data(url, amount)
\* lines 1191 and 1252
fallback_sql_query(i, url, amount) ==
  <<"U","P","D","A","T","E"," ","r","e","f","u","n","d","_","r","e","q","u","e","s","t","s"," ","S","E","T"," ","i","m","a","g","e","_","u","r","l"," ","="," ","'">> \o url \o <<"'",","," ","a","m","o","u","n","t"," ","="," ">> \o FloatStr(amount)
  \o <<" ","W","H","E","R","E"," ","i","d"," ","="," ">> \o NatStr(i)
\* line 1211
check_query(i) == <<"S","E","L","E","C","T"," ","i","d"," ","F","R","O","M"," ","r","e","f","u","n","d","_","r","e","q","u","e","s","t","s"," ","W","H","E","R","E"," ","i","d"," ","="," ">> \o NatStr(i)

\* what the two reads of a receipt answer in this function: the image is not
\* found, or the model reads a total
StorageReceipts ==
  {r \in ExtractOutcomes :
     r.kind = "fetch_failed" \/ r.text = <<"T","o","t","a","l",":"," ","4","5">>}

\* a slip in the test of lines 1153 and 1159: no amount counts as None
AmountIsNone_Never(amount) == FALSE
\* amount is None
AmountIsNone(amount) == amount = NullV

\* the record appended for image i, and the end of the pass
StorageRecord(i, status) == [id |-> i, image |-> image_name(i), status |-> status]
NextImage(i, status) ==
  /\ results' = Append(results, StorageRecord(i, status))
  /\ idx' = idx + 1
  /\ pc' = "loop"
  /\ query' = <<>> /\ result' = NoResult
SamePass(to) == pc' = to /\ results' = results /\ idx' = idx

\* lines 1150-1171: the amount, read from the image URL and then from the
\* alternative URL
StorageExtract ==
  /\ job = "storage" /\ pc = "loop" /\ idx <= Len(Range(urls[1], urls[2]))
  /\ \E r1 \in StorageReceipts :
       \E r2 \in (IF AmountIsNone(extract_amount_from_receipt(r1).amount)
                  THEN StorageReceipts ELSE {r1}) :
         LET i == Range(urls[1], urls[2])[idx]
             first == extract_amount_from_receipt(r1).amount
             amount == IF AmountIsNone(first) THEN extract_amount_from_receipt(r2).amount
                       ELSE first
             url == IF AmountIsNone(first) /\ ~AmountIsNone(amount) THEN alternative_url(i)
                    ELSE image_url(i)
         IN /\ attempted' = Append(attempted, i)
            /\ extracted' = Append(extracted, [exc |-> FALSE, amount |-> amount, image_url |-> url])
            /\ IF AmountIsNone(amount)
               THEN NextImage(i, "extraction_failed")
               ELSE SamePass("update") /\ query' = query /\ result' = result
  /\ UNCHANGED <<sb, outs, job, urls, summarized, transcripts, processed_files, written, fs, unlinkOk,
                 writes, returned, mainVars>>

\* lines 1186-1209: the table update of row i
StorageUpdate ==
  /\ job = "storage" /\ pc = "update"
  /\ \E o \in (IF sb = "client" THEN Outcomes ELSE {"raise"}) :
       LET i == Range(urls[1], urls[2])[idx]
           cur == extracted[Len(extracted)]
           call == UpdateCall(kRefundRequests, update_data(cur.image_url, cur.amount),
                              <<"i","d">>, IntV(i))
       IN /\ writes' = writes \o Sent(sb = "client", call)
          /\ IF o = "rows" THEN NextImage(i, "success")
             ELSE /\ SamePass(IF o = "raise" THEN "sql_except"
                              ELSE IF o = "error" THEN "sql_inline" ELSE "check")
                  /\ query' = query /\ result' = result
  /\ UNCHANGED <<sb, outs, job, urls, attempted, summarized, transcripts, processed_files, written, fs,
                 unlinkOk, returned, extracted, mainVars>>

\* the UPDATE statement given to execute_sql_query: at lines 1191-1197 when the
\* update reported an error, at lines 1252-1265 when a table call raised or the
\* first fallback failed
StorageSqlFallback ==
  /\ job = "storage" /\ pc \in {"sql_inline", "sql_except"}
  /\ \E o1 \in (IF sb = "client" THEN Outcomes ELSE {"raise"}) :
       \E o2 \in (IF sb = "client" /\ o1 = "raise" THEN Outcomes ELSE {"raise"}) :
         LET i == Range(urls[1], urls[2])[idx]
             cur == extracted[Len(extracted)]
         IN \E sql \in {fallback_sql_query(i, cur.image_url, cur.amount)} :
              \E sql_response \in {execute_sql_query(sql, sb = "client", o1, o2)} :
                /\ writes' = writes \o sql_response.calls
                /\ IF pc = "sql_except"
                   THEN NextImage(i, IF IsErrorObject(sql_response.ret) THEN "error"
                                     ELSE "success_via_sql")
                   ELSE /\ SamePass(IF IsErrorObject(sql_response.ret) THEN "sql_except"
                                    ELSE "check")
                        /\ query' = sql /\ result' = sql_response
  /\ UNCHANGED <<sb, outs, job, urls, attempted, summarized, transcripts, processed_files, written, fs,
                 unlinkOk, returned, extracted, mainVars>>

\* lines 1211-1222: the check that row i exists
StorageCheck ==
  /\ job = "storage" /\ pc = "check"
  /\ \E o1 \in (IF sb = "client" THEN Outcomes ELSE {"raise"}) :
       \E o2 \in (IF sb = "client" /\ o1 = "raise" THEN Outcomes ELSE {"raise"}) :
         LET i == Range(urls[1], urls[2])[idx]
         IN \E check_result \in {execute_sql_query(check_query(i), sb = "client", o1, o2)} :
              /\ writes' = writes \o check_result.calls
              /\ IF check_result.ret.kind = "rows"
                 THEN NextImage(i, "likely_success")
                 ELSE /\ SamePass("insert")
                      /\ query' = check_query(i) /\ result' = check_result
  /\ UNCHANGED <<sb, outs, job, urls, attempted, summarized, transcripts, processed_files, written, fs,
                 unlinkOk, returned, extracted, mainVars>>

\* lines 1225-1248: the insert of a row with id i
StorageInsert ==
  /\ job = "storage" /\ pc = "insert"
  /\ \E o \in (IF sb = "client" THEN Outcomes ELSE {"raise"}) :
       LET i == Range(urls[1], urls[2])[idx]
           cur == extracted[Len(extracted)]
           call == InsertCall(kRefundRequests, insert_data(i, cur.image_url, cur.amount))
       IN /\ writes' = writes \o Sent(sb = "client", call)
          /\ IF o = "raise" THEN SamePass("sql_except") /\ query' = query /\ result' = result
             ELSE NextImage(i, IF o = "rows" THEN "success_insert" ELSE "db_update_failed")
  /\ UNCHANGED <<sb, outs, job, urls, attempted, summarized, transcripts, processed_files, written, fs,
                 unlinkOk, returned, extracted, mainVars>>

\* line 1288
StorageReturn ==
  /\ job = "storage" /\ pc = "loop" /\ idx > Len(Range(urls[1], urls[2]))
  /\ returned' = "results"
  /\ pc' = "done"
  /\ UNCHANGED <<sb, job, urls, idx, results, attempted, summarized, transcripts, processed_files,
                 written, fs, unlinkOk, writes, extracted>>
  /\ UNCHANGED <<sqlVars, mainVars>>

NextStorage ==
  \/ StorageExtract \/ StorageUpdate \/ StorageSqlFallback \/ StorageCheck
  \/ StorageInsert \/ StorageReturn

\* the state before one of the functions in jobs is called
MediaStart(jobs) ==
  /\ SqlIdle /\ MainIdle
  /\ job \in jobs
  /\ urls \in (IF job = "bucket" THEN {image_files}
               ELSE IF job = "storage" THEN Ranges
               ELSE IF job = "summary" THEN {u \in UrlLists : Len(u) = 1} ELSE UrlLists)
  /\ sb \in (IF job \in {"receipts", "storage"} THEN {"client", "None"} ELSE {"client"})
  /\ pc = (IF job = "audio" THEN "start" ELSE "loop")
  /\ idx = 1 /\ results = <<>> /\ attempted = <<>> /\ summarized = <<>>
  /\ transcripts = <<>>
  /\ processed_files = <<>> /\ written = {} /\ writes = <<>> /\ returned = "none"
  /\ extracted = <<>>
  /\ fs \in (IF job = "audio"
             THEN {NoDir, [dir |-> TRUE, files |-> {}], [dir |-> TRUE, files |-> {<<0>>}]}
             ELSE {NoDir})
  /\ unlinkOk \in (IF job = "audio" THEN BOOLEAN ELSE {TRUE})

InitMedia == MediaStart({"audio", "summary", "receipts", "bucket"})

NextMedia ==
  \/ AudioStart \/ AudioItem \/ AudioReturn \/ HandleAudioFinally \/ GetAudioSummary
  \/ ReceiptItem \/ ReceiptReturn
  \/ BucketItem \/ BucketReturn

SpecMedia == InitMedia /\ [][NextMedia]_vars

(***************************************************************************)
(* Claims about the batch functions (SpecMedia)                            *)
(***************************************************************************)
AudioDone == job = "audio" /\ pc = "done"
Status(i) == results[i].status

\* C6: when deleting a file succeeds, process_audio_urls has returned with no
\* audio file it downloaded left in the scratch directory, whichever of the
\* downloads, transcriptions and summaries failed
C6_NoAudioFileLeft ==
  (AudioDone /\ unlinkOk) => written \cap fs.files = {}
\* C6 witness: a call that has returned after it wrote three files, one of a
\* download that was given up, one whose transcription failed and one that was
\* transcribed
C6_Witness ==
  /\ AudioDone /\ unlinkOk /\ returned = "results"
  /\ \E i, j, k \in DOMAIN results :
       /\ Status(i) = "download_failed" /\ <<i>> \in written
       /\ Status(j) = "transcription_failed" /\ <<j>> \in written
       /\ Status(k) = "success" /\ <<k>> \in written

BatchDone == job \in {"audio", "receipts"} /\ pc = "done"
OneRecordPerUrl ==
  /\ Len(results) = Len(urls)
  /\ \A i \in DOMAIN urls : results[i].url = urls[i]
  /\ attempted = urls
\* C7: process_receipt_images always, and process_audio_urls once FFmpeg is set
\* up and the scratch directory is made, return a list of one record per input
\* URL, in input order and carrying that URL, and every URL was processed
\* whatever failed for the URLs before it
C7_OneRecordPerUrl ==
  (BatchDone /\ returned \notin {"error_ffmpeg", "error_tempdir"}) =>
    (returned = "results" /\ OneRecordPerUrl)
\* C7 witness: a returned list whose first record is a failure and whose later
\* records are a success and another failure
C7_Witness ==
  /\ BatchDone /\ returned = "results" /\ Len(urls) >= 3
  /\ Status(1) \in {"download_failed", "extraction_failed"}
  /\ Status(2) = "success"
  /\ Status(3) \in {"transcription_failed", "error", "db_save_failed"}

\* C8 as stated: populate_refund_requests_from_bucket of image.py has ended
\* only after it attempted each of its images, whatever failed for an image
C8_EveryImageAttempted ==
  (job = "bucket" /\ pc = "done") => attempted = urls

(***************************************************************************)
(* handle_request and the command-line loop.  The schema fetch, the HTTP   *)
(* request to the language model and the database answer with any of their *)
(* outcomes; what handle_audio_request, handle_image_request and           *)
(* fetch_and_process_storage_receipts return is an outcome as well (their  *)
(* loops are the batch functions above).                                   *)
(***************************************************************************)
AnyIn(terms, s) == \E term \in terms : Contains(s, term)

\* a slip in the list of line 1331: 'content' is missing
SummaryTerms_NoContent ==
  {<<"s","u","m","m","a","r","y">>, <<"s","u","m","m","a","r","i","z","e">>, <<"s","u","m","m","a","r","i","z","a","t","i","o","n">>, <<"w","h","a","t"," ","i","s"," ","b","e","i","n","g"," ","s","a","i","d">>, <<"t","r","a","n","s","c","r","i","p","t">>}
\* line 1331: the two lists of the audio summarisation check
AudioTerms == {<<"a","u","d","i","o">>, <<"r","e","f","u","n","d","_","a","u","d">>, <<"r","e","f","u","n","d"," ","a","u","d","i","o">>}
SummaryTerms ==
  {<<"s","u","m","m","a","r","y">>, <<"s","u","m","m","a","r","i","z","e">>, <<"s","u","m","m","a","r","i","z","a","t","i","o","n">>, <<"w","h","a","t"," ","i","s"," ","b","e","i","n","g"," ","s","a","i","d">>,
   <<"c","o","n","t","e","n","t">>, <<"t","r","a","n","s","c","r","i","p","t">>}

\* line 1376
db_operation_keywords ==
  {<<"i","n","s","e","r","t">>, <<"u","p","d","a","t","e">>, <<"d","e","l","e","t","e">>, <<"s","e","l","e","c","t">>, <<"a","d","d">>, <<"m","o","d","i","f","y">>, <<"c","h","a","n","g","e">>,
   <<"r","e","m","o","v","e">>, <<"g","e","t">>, <<"s","h","o","w">>, <<"l","i","s","t">>, <<"q","u","e","r","y">>, <<"f","i","n","d">>, <<"f","e","t","c","h">>, <<"s","e","t">>,
   <<"e","m","p","l","o","y","e","e">>, <<"r","e","f","u","n","d">>}

\* re.search of a pattern lit1.*?lit2.*?...: groups is the sequence of the
\* alternatives of each literal, p the index the search is at (a line read by
\* input() holds no newline, so '.' crosses every character)
RECURSIVE InOrder(_, _, _)
InOrder(s, p, groups) ==
  IF groups = <<>> THEN TRUE
  ELSE \E i \in p..Len(s) : \E lit \in Head(groups) :
         /\ MatchCI(s, i, lit) # 0
         /\ InOrder(s, MatchCI(s, i, lit), Tail(groups))
\* re.search(r"refund_req\d+\.png", s)
HasReceiptName(s) ==
  \E i \in 1..Len(s) :
    LET d == MatchCI(s, i, <<"r","e","f","u","n","d","_","r","e","q">>)
    IN d # 0 /\ d <= Len(s) /\ IsDigit(s[d])
       /\ MatchCI(s, SetMin({j \in d..(Len(s) + 1) : j = Len(s) + 1 \/ ~IsDigit(s[j])}),
                  <<".","p","n","g">>) # 0

\* line 1406: the exact task description
ExactTask(lu) ==
  /\ Contains(lu, <<"g","e","t"," ","a","l","l"," ","t","h","e"," ","u","r","l","s"," ","f","r","o","m"," ","t","h","e"," ","s","t","o","r","a","g","e">>)
  /\ Contains(lu, <<"r","e","f","u","n","d","_","r","e","q">>)
  /\ Contains(lu, <<"u","p","d","a","t","e"," ","t","h","e"," ","r","e","s","p","e","c","t","i","v","e"," ","r","o","w","s">>)

\* the literal at p, letter case included: the index after it, or 0
Match(s, p, lit) ==
  IF p # 0 /\ p + Len(lit) - 1 <= Len(s) /\ SubSeq(s, p, p + Len(lit) - 1) = lit
  THEN p + Len(lit) ELSE 0
\* \d+ at p: the index after the longest run of digits, or 0
Digit1(s, p) ==
  IF p = 0 \/ p > Len(s) \/ ~IsDigit(s[p]) THEN 0
  ELSE CHOOSE j \in p..(Len(s) + 1) :
         /\ (j = Len(s) + 1 \/ ~IsDigit(s[j]))
         /\ \A k \in p..(j - 1) : IsDigit(s[k])
\* re.search(r"refund_req(\d+)\.png", s) at line 1363, re.search(r"refund_req(\d+)", s)
\* at line 1415: group 1 of the leftmost match, <<>> when there is none
StartMatch(s, png) ==
  LET at(i) == LET d == Match(s, i, <<"r","e","f","u","n","d","_","r","e","q">>)
                   e == Digit1(s, d)
               IN IF e # 0 /\ (~png \/ Match(s, e, <<".","p","n","g">>) # 0) THEN SubSeq(s, d, e - 1)
                  ELSE <<>>
      hits == {i \in 1..Len(s) : at(i) # <<>>}
  IN IF hits = {} THEN <<>> ELSE at(SetMin(hits))
\* re.search(r"(?:to|through|till)\s+(?:refund_req)?(\d+)", s), lines 1368 and 1420
EndMatch(s) ==
  LET at(i) == LET w == SetMax({Match(s, i, <<"t","o">>), Match(s, i, <<"t","h","r","o","u","g","h">>),
                                Match(s, i, <<"t","i","l","l">>)})
                   sp == Space1(s, w)
                   r == IF Digit1(s, Match(s, sp, <<"r","e","f","u","n","d","_","r","e","q">>)) # 0
                        THEN Match(s, sp, <<"r","e","f","u","n","d","_","r","e","q">>) ELSE sp
               IN IF Digit1(s, r) # 0 THEN SubSeq(s, r, Digit1(s, r) - 1) ELSE <<>>
      hits == {i \in 1..Len(s) : at(i) # <<>>}
  IN IF hits = {} THEN <<>> ELSE at(SetMin(hits))
\* lines 1358-1373 and 1406-1425: the arguments start_num and end_num that
\* handle_request gives to fetch_and_process_storage_receipts
StorageArgs(route, user_in) ==
  IF route = "old_storage" /\ ExactTask(Lower(user_in)) THEN <<1, 10>>
  ELSE <<IF StartMatch(user_in, route = "storage") = <<>> THEN 1
         ELSE ParseNat(StartMatch(user_in, route = "storage")),
         IF EndMatch(user_in) = <<>> THEN 10 ELSE ParseNat(EndMatch(user_in))>>

\* handle_request, lines 1329-1427: the branch the input takes
Route(user_in) ==
  LET lu == Lower(user_in)
      storage ==
        /\ AnyIn({<<"s","t","o","r","a","g","e">>, <<"i","m","a","g","e">>, <<"r","e","c","e","i","p","t">>, <<"r","e","f","u","n","d","_","r","e","q">>, <<"p","n","g">>}, lu)
        /\ AnyIn({<<"u","p","d","a","t","e">>, <<"e","x","t","r","a","c","t">>, <<"p","r","o","c","e","s","s">>, <<"g","e","t"," ","i","n","f","o">>, <<"r","e","a","d">>}, lu)
        /\ \/ InOrder(lu, 1, << {<<"g","e","t">>, <<"e","x","t","r","a","c","t">>, <<"p","r","o","c","e","s","s">>},
                                {<<"i","m","a","g","e">>, <<"s","t","o","r","a","g","e">>, <<"r","e","c","e","i","p","t">>},
                                {<<"u","p","d","a","t","e">>, <<"s","e","t">>}, {<<"r","o","w">>} >>)
           \/ HasReceiptName(lu)
      keyword_count == Cardinality({k \in db_operation_keywords : Contains(lu, k)})
      is_likely_db_op ==
        /\ keyword_count >= 2
        /\ ~AnyIn({<<"p","r","o","c","e","s","s"," ","a","u","d","i","o">>, <<"t","r","a","n","s","c","r","i","b","e">>, <<"s","u","m","m","a","r","i","z","e"," ","a","u","d","i","o">>,
                   <<"e","x","t","r","a","c","t"," ","f","r","o","m"," ","r","e","c","e","i","p","t">>, <<"a","n","a","l","y","z","e"," ","i","m","a","g","e">>}, lu)
      legacy ==
        /\ AnyIn({<<"a","u","d","i","o">>, <<"r","e","f","u","n","d","_","a","u","d">>}, lu)
        /\ AnyIn({<<"s","u","m","m","a","r","y">>, <<"s","u","m","m","a","r","i","z","e">>, <<"t","r","a","n","s","c","r","i","b","e">>, <<"t","r","a","n","s","c","r","i","p","t">>,
                  <<"w","h","a","t"," ","i","s"," ","b","e","i","n","g"," ","s","a","i","d">>}, lu)
      task == ExactTask(lu)
      command ==
        /\ AnyIn({<<"p","r","o","c","e","s","s"," ","a","l","l"," ","r","e","c","e","i","p","t","s">>, <<"u","p","d","a","t","e"," ","r","e","f","u","n","d"," ","r","o","w","s">>, <<"p","r","o","c","e","s","s"," ","s","t","o","r","a","g","e">>}, lu)
        /\ Contains(user_in, <<"r","e","f","u","n","d","_","r","e","q">>)
        /\ (Contains(user_in, <<"i","m","a","g","e">>) \/ Contains(user_in, <<"r","e","c","e","i","p","t">>))
  IN IF AnyIn(AudioTerms, lu) /\ AnyIn(SummaryTerms, lu) THEN "audio"
     ELSE IF storage THEN "storage"
     ELSE IF is_likely_db_op THEN "db"
     ELSE IF legacy THEN "legacy_audio"
     ELSE IF task \/ (~task /\ command) THEN "old_storage"
     ELSE "regular"

\* get_supabase_schema_via_rest: what the database answered to the schema query
SchemaOutcomes ==
  {[kind |-> "rows", text |-> <<>>], [kind |-> "empty", text |-> <<>>],
   [kind |-> "raise", text |-> <<"t","i","m","e","d"," ","o","u","t">>],
   [kind |-> "raise", text |-> <<"{","'","s","t","a","t","u","s","'",":"," ","'","s","u","c","c","e","s","s","'","}">>]}
\* a schema, or {"error": msg}
get_supabase_schema_via_rest(sbOk, s) ==
  IF ~sbOk
  THEN [error |-> TRUE,
        msg |-> <<"E","x","c","e","p","t","i","o","n"," ","o","c","c","u","r","r","e","d"," ","w","h","i","l","e"," ","f","e","t","c","h","i","n","g"," ","s","c","h","e","m","a",":"," ">>
                \o <<"'","N","o","n","e","T","y","p","e","'"," ","o","b","j","e","c","t"," ","h","a","s"," ","n","o"," ","a","t","t","r","i","b","u","t","e"," ","'","r","p","c","'">>]
  ELSE IF s.kind = "rows" THEN [error |-> FALSE, msg |-> <<>>]
  ELSE IF s.kind = "empty"
  THEN [error |-> TRUE, msg |-> <<"N","o"," ","d","a","t","a"," ","r","e","t","u","r","n","e","d"," ","f","r","o","m"," ","s","c","h","e","m","a"," ","q","u","e","r","y">>]
  ELSE [error |-> TRUE, msg |-> <<"E","x","c","e","p","t","i","o","n"," ","o","c","c","u","r","r","e","d"," ","w","h","i","l","e"," ","f","e","t","c","h","i","n","g"," ","s","c","h","e","m","a",":"," ">> \o s.text]
\* lines 509, 1303 and 1434: the request goes on with or without the schema
SchemaPasses(sbOk, s) ==
  LET schema_data == get_supabase_schema_via_rest(sbOk, s)
  IN \/ ~schema_data.error
     \/ Contains(schema_data.msg, <<"s","t","a","t","u","s">>) /\ Contains(schema_data.msg, <<"s","u","c","c","e","s","s">>)

\* the character ` of a markdown code fence
Backtick == "backtick"
\* the HTTP request to the language model, and the texts it answers with
HttpOutcomes == {"raise", "not_json", "non200", "no_candidates", "text"}
ModelTexts == {
  <<"S","E","L","E","C","T"," ","*"," ","F","R","O","M"," ","t">>,
  <<Backtick,Backtick,Backtick,"s","q","l","\n","S","E","L","E","C","T"," ","*"," ","F","R","O","M"," ","t",";","\n",Backtick,Backtick,Backtick>>,
  <<"H","e","r","e"," ","y","o","u"," ","g","o",":"," ","D","E","L","E","T","E"," ","F","R","O","M"," ","t">>,
  <<"I"," ","c","a","n","n","o","t"," ","h","e","l","p"," ","w","i","t","h"," ","t","h","a","t">>,
  <<Backtick,Backtick,Backtick,Backtick,Backtick,"s","q","l",Backtick," ","u","p","d","a","t","e"," ","t"," ","s","e","t"," ","a"," ","="," ","1"," ">>,   \* five fence characters, sql, one more, then: update t set a = 1
  <<" "," ",Backtick,Backtick,Backtick,"o","k",Backtick,Backtick,Backtick," "," ">>   \* ok between two fences and spaces
}
\* str.replace(sub, '')
RECURSIVE RemoveAll(_, _)
RemoveAll(s, sub) ==
  IF Len(s) < Len(sub) \/ Len(sub) = 0 THEN s
  ELSE IF StartsWith(s, sub) THEN RemoveAll(SubSeq(s, Len(sub) + 1, Len(s)), sub)
  ELSE <<Head(s)>> \o RemoveAll(Tail(s), sub)
\* a slip in line 577: only the fences that open with ```sql are removed
SqlOfText_SqlFenceOnly(text) ==
  LET cleaned == Strip(RemoveAll(text, <<Backtick,Backtick,Backtick,"s","q","l">>))
      at == {i \in 1..Len(cleaned) :
               \E kw \in {<<"s","e","l","e","c","t">>, <<"i","n","s","e","r","t">>, <<"u","p","d","a","t","e">>, <<"d","e","l","e","t","e">>} :
                 MatchCI(cleaned, i, kw) # 0}
  IN IF at = {} THEN Strip(cleaned)
     ELSE Strip(SubSeq(cleaned, SetMin(at), Len(cleaned)))
\* nl_to_sql_gemini, lines 575-583: the statement taken from the answer
SqlOfText(text) ==
  LET cleaned == Strip(RemoveAll(RemoveAll(text, <<Backtick,Backtick,Backtick,"s","q","l">>), <<Backtick,Backtick,Backtick>>))
      at == {i \in 1..Len(cleaned) :
               \E kw \in {<<"s","e","l","e","c","t">>, <<"i","n","s","e","r","t">>, <<"u","p","d","a","t","e">>, <<"d","e","l","e","t","e">>} :
                 MatchCI(cleaned, i, kw) # 0}
  IN IF at = {} THEN Strip(cleaned)
     ELSE Strip(SubSeq(cleaned, SetMin(at), Len(cleaned)))

\* nl_to_sql_gemini: a statement, an error object, or an exception; the request of
\* line 569 and the parse of line 572 stand in no handler
Sql(text) == [exc |-> FALSE, error |-> FALSE, msg |-> "", sql |-> text]
SqlError(msg) == [exc |-> FALSE, error |-> TRUE, msg |-> msg, sql |-> <<>>]
SqlRaise == [exc |-> TRUE, error |-> FALSE, msg |-> "", sql |-> <<>>]
nl_to_sql_gemini(sbOk, s, h, text) ==
  IF ~SchemaPasses(sbOk, s) THEN SqlError("Failed to fetch schema from Supabase.")
  ELSE IF h \in {"raise", "not_json"} THEN SqlRaise
  ELSE IF h = "non200" THEN SqlError("response.text")
  ELSE IF h = "no_candidates" THEN SqlError("No candidates returned by Gemini.")
  ELSE Sql(SqlOfText(text))

\* handle_request, lines 1443-1516 and 1531-1603: what is done with the rows of
\* the executed statement
PostProcess(user_in, rows) ==
  LET lu == Lower(user_in)
      fetching == {<<"g","e","t">>, <<"f","e","t","c","h">>, <<"s","h","o","w">>, <<"l","i","s","t">>, <<"d","i","s","p","l","a","y">>, <<"g","i","v","e"," ","m","e">>,
                   <<"r","e","t","u","r","n">>}
      summarising == {<<"s","u","m","m","a","r","y">>, <<"s","u","m","m","a","r","i","z","e">>, <<"t","r","a","n","s","c","r","i","b","e">>, <<"t","r","a","n","s","c","r","i","p","t">>,
                      <<"w","h","a","t"," ","i","s"," ","b","e","i","n","g"," ","s","a","i","d">>}
      is_audio_query == Contains(lu, <<"a","u","d","i","o">>) /\ rows
      is_image_query ==
        AnyIn({<<"i","m","a","g","e">>, <<"r","e","c","e","i","p","t">>, <<"p","h","o","t","o">>, <<"p","i","c","t","u","r","e">>}, lu) /\ rows
      audio_summary_intent ==
        AnyIn(summarising \cup {<<"w","h","a","t","'","s"," ","b","e","i","n","g"," ","s","a","i","d">>, <<"c","o","n","t","e","n","t">>}, lu)
      just_get_urls ==
        /\ AnyIn(fetching, lu)
        /\ (Contains(lu, <<"u","r","l">>) \/ Contains(lu, <<"l","i","n","k">>))
        /\ ~AnyIn(summarising, lu)
      process_audio ==
        AnyIn(summarising \cup {<<"p","r","o","c","e","s","s">>, <<"a","n","a","l","y","z","e">>, <<"c","o","n","v","e","r","t">>, <<"c","o","n","t","e","n","t">>}, lu)
      just_get_image_urls ==
        /\ AnyIn(fetching, lu)
        /\ (Contains(lu, <<"u","r","l">>) \/ Contains(lu, <<"l","i","n","k">>) \/ Contains(lu, <<"i","m","a","g","e">>))
      process_images ==
        AnyIn({<<"p","r","o","c","e","s","s">>, <<"e","x","t","r","a","c","t">>, <<"a","n","a","l","y","z","e">>, <<"a","m","o","u","n","t">>, <<"t","o","t","a","l">>, <<"s","c","a","n">>}, lu)
  IN IF is_audio_query
     THEN (IF audio_summary_intent \/ process_audio \/ ~just_get_urls
           THEN "handle_audio_request" ELSE "query_result")
     ELSE IF is_image_query
     THEN (IF process_images /\ ~just_get_image_urls
           THEN "handle_image_request" ELSE "query_result")
     ELSE "query_result"

\* lines 1335 and 1396: the statement of the audio routes
kAudioQuery == <<"S","E","L","E","C","T"," ","i","d",","," ","a","u","d","i","o","_","u","r","l"," ","F","R","O","M"," ","r","e","f","u","n","d","_","r","e","q","u","e","s","t","s"," ","W","H","E","R","E"," ","a","u","d","i","o","_","u","r","l"," ","I","S"," ","N","O","T"," ","N","U","L","L">>
\* what handle_audio_request and handle_image_request return: the list of
\* records, a warning that no URL was found, or the error of process_audio_urls
SubOutcomes(handler) ==
  IF handler = "handle_audio_request" THEN {"results", "warning", "error"}
  ELSE {"results", "warning"}

(***************************************************************************)
(* The command-line loop of the entry point.  handle_request is followed   *)
(* from one external call to the next; response holds what it did so far:  *)
(* whether an exception left it, the value it returned, the functions it   *)
(* called and the statements it gave to execute_sql_query.                 *)
(***************************************************************************)
\* the lines the user types
Lines == {
  <<"e","x","i","t">>,   \* exit
  <<"q","u","i","t">>,   \* quit
  <<"E","X","I","T">>,   \* EXIT
  <<"e","x","i","t"," ">>,   \* exit 
  <<>>,   \* (an empty line)
  <<"s","u","m","m","a","r","i","z","e"," ","t","h","e"," ","a","u","d","i","o">>,   \* summarize the audio
  <<"S","u","m","m","a","r","i","z","e"," ","t","h","e"," ","A","U","D","I","O">>,   \* Summarize the AUDIO
  <<"r","e","f","u","n","d","_","a","u","d"," ","c","o","n","t","e","n","t">>,   \* refund_aud content
  <<"s","h","o","w"," ","a","u","d","i","o"," ","t","r","a","n","s","c","r","i","p","t"," ","l","i","s","t">>,   \* show audio transcript list
  <<"u","p","d","a","t","e"," ","r","e","f","u","n","d","_","r","e","q","1",".","p","n","g"," ","r","e","c","e","i","p","t"," ","a","u","d","i","o"," ","s","u","m","m","a","r","y">>,   \* update refund_req1.png receipt audio summary
  <<"s","h","o","w"," ","r","e","f","u","n","d"," ","l","i","s","t">>,   \* show refund list
  <<"p","r","o","c","e","s","s"," ","r","e","f","u","n","d","_","r","e","q","1",".","p","n","g"," ","t","o"," ","3">>,   \* process refund_req1.png to 3
  <<"g","e","t"," ","r","e","c","e","i","p","t"," ","i","m","a","g","e"," ","a","n","d"," ","u","p","d","a","t","e"," ","t","h","e"," ","r","o","w">>,   \* get receipt image and update the row
  <<"t","r","a","n","s","c","r","i","b","e"," ","a","u","d","i","o">>,   \* transcribe audio
  <<"h","e","l","l","o">>,   \* hello
  <<"a","u","d","i","o"," ","u","r","l","s">>,   \* audio urls
  <<"w","h","a","t","'","s"," ","b","e","i","n","g"," ","s","a","i","d"," ","i","n"," ","t","h","e"," ","a","u","d","i","o">>,   \* what's being said in the audio
  <<"r","e","c","e","i","p","t"," ","t","o","t","a","l">>,   \* receipt total
  <<"p","r","o","c","e","s","s"," ","a","l","l"," ","r","e","c","e","i","p","t","s"," ","r","e","f","u","n","d","_","r","e","q"," ","i","m","a","g","e">>,   \* process all receipts refund_req image
  <<"P","r","o","c","e","s","s"," ","R","E","F","U","N","D","_","R","E","Q","2",".","P","N","G">>,   \* Process REFUND_REQ2.PNG
  <<"p","r","o","c","e","s","s"," ","r","e","f","u","n","d","_","r","e","q","2",".","p","n","g"," ","t","h","r","o","u","g","h"," ","r","e","f","u","n","d","_","r","e","q","4">>,   \* process refund_req2.png through refund_req4
  <<"p","r","o","c","e","s","s"," ","a","l","l"," ","r","e","c","e","i","p","t","s"," ","r","e","f","u","n","d","_","r","e","q","7"," ","i","m","a","g","e">>,   \* process all receipts refund_req7 image
  <<"g","e","t"," ","a","l","l"," ","t","h","e"," ","u","r","l","s"," ","f","r","o","m"," ","t","h","e"," ","s","t","o","r","a","g","e"," ","r","e","f","u","n","d","_","r","e","q","5"," ","t","o"," ","7"," ","a","n","d"," ","u","p","d","a","t","e"," ","t","h","e"," ","r","e","s","p","e","c","t","i","v","e"," ","r","o","w","s">>,   \* get all the urls from the storage refund_req5 to 7 and update the respective rows
  <<"G","e","t"," ","a","l","l"," ","t","h","e"," ","u","r","l","s"," ","f","r","o","m"," ","t","h","e"," ","s","t","o","r","a","g","e",","," ","r","e","f","u","n","d","_","r","e","q","3",","," ","t","h","e","n"," ","u","p","d","a","t","e"," ","t","h","e"," ","r","e","s","p","e","c","t","i","v","e"," ","r","o","w","s">>   \* Get all the urls from the storage, refund_req3, then update the respective rows
}
kExit == <<"e","x","i","t">>
Called(fn) == [response EXCEPT !.called = Append(@, fn)]
Returned(r, ret) == [r EXCEPT !.ret = ret]

InitMain ==
  /\ sb \in {"client", "None"}
  /\ pc = "prompt"
  /\ SqlIdle /\ MediaIdle /\ MainIdle

\* lines 1617-1620: input(), and the test for 'exit'
ReadLine ==
  /\ pc = "prompt"
  /\ \E line \in Lines :
       /\ user_input' = line
       /\ pc' = (IF Lower(line) = kExit THEN "exited" ELSE "route")
  /\ response' = NoResponse
  /\ query' = <<>> /\ outs' = <<>> /\ result' = NoResult
  /\ UNCHANGED <<sb, mediaVars>>

\* handle_request, lines 1329-1427: the branch is taken
RouteRequest ==
  /\ pc = "route"
  /\ LET route == Route(user_input)
     IN IF route \in {"audio", "legacy_audio"}
        THEN /\ query' = kAudioQuery /\ pc' = "execute" /\ response' = response
        ELSE IF route \in {"storage", "old_storage"}
        THEN /\ response' = [Returned(Called("fetch_and_process_storage_receipts"),
                                      Ret("fetch_and_process_storage_receipts", "results"))
                               EXCEPT !.args = StorageArgs(route, user_input)]
             /\ pc' = "prompt" /\ query' = query
        ELSE /\ response' = (IF route = "db" THEN Called("handle_database_operations")
                             ELSE response)
             /\ pc' = "schema" /\ query' = query
  /\ UNCHANGED <<sb, user_input, outs, result, mediaVars>>

\* lines 1298-1314, 1429-1434 and 1521: the schema fetch of the handler
FetchSchema ==
  /\ pc = "schema"
  /\ \E s \in (IF sb = "client" THEN SchemaOutcomes ELSE {[kind |-> "raise", text |-> <<>>]}) :
       LET fetched == [Called("get_supabase_schema_via_rest") EXCEPT
                         !.schema = IF ~get_supabase_schema_via_rest(sb = "client", s).error
                                    THEN "fetched"
                                    ELSE IF SchemaPasses(sb = "client", s)
                                    THEN "error_status_success" ELSE "error"]
       IN IF SchemaPasses(sb = "client", s)
          THEN /\ response' = fetched /\ pc' = "translate"
          ELSE /\ response' = Returned(fetched, Ret("error", "schema_data"))
               /\ pc' = "prompt"
  /\ UNCHANGED <<sb, user_input, sqlVars, mediaVars>>

\* lines 1306-1308, 1317-1320, 1437-1438 and 1524-1526: nl_to_sql_gemini; its
\* exception leaves handle_request and ends the program
NlToSql ==
  /\ pc = "translate"
  /\ \E s \in SchemaOutcomes, h \in HttpOutcomes :
       \E text \in (IF h = "text" THEN ModelTexts ELSE {<<>>}) :
         LET sql_query == nl_to_sql_gemini(sb = "client", s, h, text)
             \* the answer to the request of line 569, when the request was made
             called == [Called("nl_to_sql_gemini") EXCEPT
                          !.answer = IF SchemaPasses(sb = "client", s)
                                     THEN [h |-> h, text |-> text] ELSE @]
         IN IF sql_query.exc
            THEN /\ response' = [called EXCEPT !.exc = TRUE]
                 /\ pc' = "crashed" /\ query' = query
            ELSE IF sql_query.error
            THEN /\ response' = Returned(called, Ret("error", sql_query.msg))
                 /\ pc' = "prompt" /\ query' = query
            ELSE /\ response' = called
                 /\ pc' = "execute" /\ query' = sql_query.sql
  /\ UNCHANGED <<sb, user_input, outs, result, mediaVars>>

\* lines 1311, 1323, 1336, 1397, 1440 and 1528: execute_sql_query(query)
ExecuteQuery ==
  /\ pc = "execute"
  /\ \E o1 \in (IF sb = "client" THEN Outcomes ELSE {"raise"}) :
       \E o2 \in (IF sb = "client" /\ o1 = "raise" THEN Outcomes ELSE {"raise"}) :
         /\ outs' = <<o1, o2>>
         /\ result' = execute_sql_query(query, sb = "client", o1, o2)
  /\ response' = [Called("execute_sql_query") EXCEPT !.sqls = Append(@, query)]
  /\ pc' = "executed"
  /\ UNCHANGED <<sb, user_input, query, mediaVars>>

\* what handle_request does with the result of the statement, and its return
ReturnResponse ==
  /\ pc = "executed"
  /\ LET rows == result.ret.kind = "rows"
         handler == IF Route(user_input) \in {"audio", "legacy_audio"}
                    THEN (IF rows THEN "handle_audio_request" ELSE "none")
                    ELSE IF Route(user_input) = "db" THEN "query_result"
                    ELSE PostProcess(user_input, rows)
     IN IF result.raised
        THEN /\ response' = [response EXCEPT !.exc = TRUE] /\ pc' = "crashed"
        ELSE /\ pc' = "prompt"
             /\ IF handler = "none"
                THEN response' = Returned(response,
                                          Ret("error", "No audio files found to process"))
                ELSE IF handler = "query_result"
                THEN response' = Returned(response, result.ret)
                ELSE \E a \in SubOutcomes(handler) :
                       response' = Returned(Called(handler), Ret(handler, a))
  /\ UNCHANGED <<sb, user_input, sqlVars, mediaVars>>

NextMain ==
  \/ ReadLine \/ RouteRequest \/ FetchSchema \/ NlToSql \/ ExecuteQuery \/ ReturnResponse

SpecMain == InitMain /\ [][NextMain]_vars

(***************************************************************************)
(* Claims about handle_request and the command-line loop (SpecMain)        *)
(***************************************************************************)
\* a request is over: handle_request returned, or an exception left it
RequestOver == pc = "crashed" \/ (pc = "prompt" /\ response.called # <<>>)

\* C2 as stated: no exception leaves handle_request, whichever of the schema
\* fetch, the HTTP request of nl_to_sql_gemini and the SQL execution fails
C2_HandleRequestNeverRaises == ~response.exc

kQuit == <<"q","u","i","t">>
\* C9 as stated: the loop has ended the session exactly when the line it read
\* is 'exit' or 'quit'; after either, no request is handled
C9_ExitOrQuitEndsSession ==
  /\ Lower(user_input) \in {kExit, kQuit} => pc = "exited"
  /\ pc = "exited" => Lower(user_input) \in {kExit, kQuit}

\* the inputs C10 is about: an audio term and a summary term
AudioSummaryInput ==
  /\ AnyIn({<<"a","u","d","i","o">>, <<"r","e","f","u","n","d","_","a","u","d">>, <<"r","e","f","u","n","d"," ","a","u","d","i","o">>}, Lower(user_input))
  /\ AnyIn({<<"s","u","m","m","a","r","y">>, <<"s","u","m","m","a","r","i","z","e">>, <<"s","u","m","m","a","r","i","z","a","t","i","o","n">>, <<"w","h","a","t"," ","i","s"," ","b","e","i","n","g"," ","s","a","i","d">>,
            <<"c","o","n","t","e","n","t">>, <<"t","r","a","n","s","c","r","i","p","t">>}, Lower(user_input))
CalledAny(fns) == \E i \in DOMAIN response.called : response.called[i] \in fns
\* C10: for an input with an audio term and a summary term, handle_request
\* gives execute_sql_query the fixed query and nothing else, calls neither the
\* schema fetch, nl_to_sql_gemini, handle_database_operations nor
\* fetch_and_process_storage_receipts, raises nothing, and returns what
\* handle_audio_request returned when the query gave rows and the error
\* 'No audio files found to process' when it gave none or failed
C10_AudioRoute ==
  AudioSummaryInput =>
    /\ pc \notin {"schema", "translate", "crashed"}
    /\ ~CalledAny({"get_supabase_schema_via_rest", "nl_to_sql_gemini",
                   "handle_database_operations", "fetch_and_process_storage_receipts",
                   "handle_image_request"})
    /\ \A i \in DOMAIN response.sqls : response.sqls[i] = kAudioQuery
    /\ RequestOver =>
         /\ response.sqls = <<kAudioQuery>>
         /\ ~response.exc
         /\ IF result.ret.kind = "rows"
            THEN /\ response.called = <<"execute_sql_query", "handle_audio_request">>
                 /\ response.ret.kind = "handle_audio_request"
            ELSE /\ response.called = <<"execute_sql_query">>
                 /\ response.ret = Ret("error", "No audio files found to process")
\* C10 witness: a line that also names a receipt file to process and holds
\* database keywords was answered with the records of handle_audio_request
C10_Witness ==
  /\ AudioSummaryInput /\ RequestOver
  /\ HasReceiptName(Lower(user_input))
  /\ Cardinality({k \in db_operation_keywords : Contains(Lower(user_input), k)}) >= 2
  /\ response.ret = Ret("handle_audio_request", "results")

(***************************************************************************)
(* Further claims about execute_sql_query (SpecSql)                        *)
(***************************************************************************)
\* the RPC calls of the invocation
RpcCalls == SelectSeq(result.calls, LAMBDA c : c.op = "rpc")

FilterCalls == SelectSeq(result.calls, LAMBDA c : c.op \in {"update", "delete"})
\* statements whose WHERE clause is a compound condition or another comparison
CompoundWhere == {
  <<"U","P","D","A","T","E"," ","t"," ","S","E","T"," ","a"," ","="," ","1"," ","W","H","E","R","E"," ","i","d"," ","="," ","5"," ","A","N","D"," ","s"," ","="," ","1">>,
  <<"U","P","D","A","T","E"," ","t"," ","S","E","T"," ","a"," ","="," ","1"," ","W","H","E","R","E"," ","i","d"," ",">"," ","5">>,
  <<"D","E","L","E","T","E"," ","F","R","O","M"," ","t"," ","W","H","E","R","E"," ","i","d"," ",">"," ","5">>,
  <<"D","E","L","E","T","E"," ","F","R","O","M"," ","t"," ","W","H","E","R","E"," ","i","d"," ","="," ","5"," ","A","N","D"," ","s"," ","="," ","1">>
}
\* statements whose WHERE clause compares with a quoted value that holds a space
SpacedWhere == {UpdateWhere(<<"'","a"," ","b","'">>), DeleteWhere(<<"'","a"," ","b","'">>)}

\* C14: a structured UPDATE or DELETE call is issued only when the WHERE clause is
\* one simple equality: a statement with a compound condition or another
\* comparison operator makes no table update or delete call, and one whose WHERE
\* compares with a quoted value holding a space is filtered by that whole value
C14_FilterIsWhereClause ==
  SqlDone =>
    /\ (query \in CompoundWhere => FilterCalls = <<>>)
    /\ (query \in SpacedWhere =>
          \A i \in 1..Len(FilterCalls) :
            /\ FilterCalls[i].col = kId
            /\ FilterCalls[i].val = StrV(<<"a"," ","b">>))

\* insert, update or delete stands in the statement as a word of its own
HasWord(q, word) ==
  \E i \in 1..Len(q) :
    /\ MatchCI(q, i, word) # 0
    /\ (i = 1 \/ ~IsWord(q[i - 1]))
    /\ (MatchCI(q, i, word) > Len(q) \/ ~IsWord(q[MatchCI(q, i, word)]))
IsModifying(q) == HasWord(q, kInsert) \/ HasWord(q, kUpdate) \/ HasWord(q, kDelete)
\* the statement took the passthrough and the database returned no rows
PassthroughEmpty ==
  /\ SqlDone /\ RpcCalls # <<>>
  /\ outs[Len(RpcCalls)] = "empty"

\* C15: on the passthrough with no rows returned, the success message is returned
\* only for INSERT, UPDATE and DELETE statements; every other statement, every
\* SELECT whatever names it mentions, gets the empty list
C15_MessageOnlyForModifying ==
  PassthroughEmpty =>
    IF IsModifying(query) THEN result.ret.kind = "message"
    ELSE result.ret = Ret("empty_list", "[]")

\* C16: an invocation that made a structured insert, update or delete call made
\* no other call: the statement is not also sent through the passthrough, whether
\* the structured call succeeded, reported an error or raised
C16_OneModifyingCall ==
  SqlDone /\ (\E i \in 1..Len(result.calls) : result.calls[i].op # "rpc") =>
    /\ Len(result.calls) = 1
    /\ RpcCalls = <<>>
C16_Witness ==
  /\ SqlDone /\ sb = "client"
  /\ query = UpdateWhere(<<"5">>)
  /\ outs[1] = "raise"
  /\ result.calls = <<UpdateCall(kT, (<<"a">> :> IntV(1)), kId, IntV(5))>>
  /\ IsErrorObject(result.ret)

\* the rows given to the table insert calls of the invocation
InsertedRows ==
  LET ins == SelectSeq(result.calls, LAMBDA c : c.op = "insert")
  IN [i \in 1..Len(ins) |-> ins[i].data]
\* INSERT statements whose number of values differs from the number of columns
MiscountedInserts == {
  <<"I","N","S","E","R","T"," ","I","N","T","O"," ","t"," ","(","a",","," ","b",")"," ","V","A","L","U","E","S"," ","(","1",")">>,
  <<"I","N","S","E","R","T"," ","I","N","T","O"," ","t"," ","(","a",")"," ","V","A","L","U","E","S"," ","(","1",","," ","2",")">>
}

\* C17: the inserted record has one entry per listed column, the coerced literal
\* at the same position, also when a quoted literal holds a comma or a
\* parenthesis and when several value tuples are given; when the number of values
\* differs from the number of columns nothing is inserted and an error object is
\* returned
C17_InsertRecord ==
  SqlDone /\ sb = "client" =>
    /\ (query = <<"i","n","s","e","r","t"," ","i","n","t","o"," ","t"," ","(","a",","," ","b",")"," ","v","a","l","u","e","s"," ","(","1",","," ","'","x","'",")">> =>
          InsertedRows = <<(<<"a">> :> IntV(1)) @@ (<<"b">> :> StrV(<<"x">>))>>)
    /\ (query = <<"I","N","S","E","R","T"," ","I","N","T","O"," ","t"," ","(","a",")"," ","V","A","L","U","E","S"," ","(","'","x",",","y","'",")">> =>
          InsertedRows = <<(<<"a">> :> StrV(<<"x",",","y">>))>>)
    /\ (query = <<"I","N","S","E","R","T"," ","I","N","T","O"," ","t"," ","(","a",")"," ","V","A","L","U","E","S"," ","(","'","f","(","x",")","'",")">> =>
          InsertedRows = <<(<<"a">> :> StrV(<<"f","(","x",")">>))>>)
    /\ (query = <<"I","N","S","E","R","T"," ","I","N","T","O"," ","t"," ","(","a",")"," ","V","A","L","U","E","S"," ","(","1",")",","," ","(","2",")">> =>
          InsertedRows = <<(<<"a">> :> IntV(1)), (<<"a">> :> IntV(2))>>)
    /\ (query \in MiscountedInserts =>
          result.calls = <<>> /\ IsErrorObject(result.ret))

\* the literals the claim names: single-quoted, double-quoted, NULL, non-negative
\* integer, negative integer, decimal
FilterLiterals == {<<"'","a","b","'">>, <<"'","5","'">>, <<"\"","a","b","\"">>, <<"N","U","L","L">>, <<"5">>, <<"-","5">>, <<"1",".","5">>}

\* C18: the filter value of a structured UPDATE or DELETE is coerced as the same
\* literal is in a SET clause or a VALUES list
C18_FilterCoercedLikeSet ==
  SqlDone /\ sb = "client" =>
    \A w \in FilterLiterals :
      /\ (query = UpdateWhere(w) =>
            OneCall("update", kT) /\ FilteredBy(kId, CoerceSetValue(w))
            /\ CoerceSetValue(w) = CoerceInsertValue(w))
      /\ (query = DeleteWhere(w) =>
            OneCall("delete", kT) /\ FilteredBy(kId, CoerceSetValue(w)))

(***************************************************************************)
(* SpecReceipts: the three receipt functions, and the command-line loop    *)
(* whose storage routes call fetch_and_process_storage_receipts            *)
(***************************************************************************)
InitReceipts == MediaStart({"receipts", "bucket", "storage"}) \/ InitMain

NextReceipts ==
  \/ ReceiptItem \/ ReceiptReturn
  \/ BucketItem \/ BucketReturn
  \/ NextStorage
  \/ NextMain

SpecReceipts == InitReceipts /\ [][NextReceipts]_vars

(***************************************************************************)
(* Claims about the receipt functions (SpecReceipts)                       *)
(***************************************************************************)
\* the number of images of the range start_num..end_num, and the id of the k-th
ImageCount == IF urls[2] >= urls[1] THEN urls[2] - urls[1] + 1 ELSE 0
ImageId(k) == urls[1] + k - 1
StorageStatuses ==
  {"extraction_failed", "success", "likely_success", "success_insert", "db_update_failed",
   "success_via_sql", "error"}
HasDigit(s) == \E k \in 1..Len(s) : IsDigit(s[k])
StorageRouted ==
  /\ pc = "prompt"
  /\ response.called = <<"fetch_and_process_storage_receipts">>

\* C11: fetch_and_process_storage_receipts(start_num, end_num) takes the images
\* refund_req<i>.png for i = start_num, ..., end_num in ascending order and returns
\* one record per i, max(0, end_num - start_num + 1) records with ascending ids,
\* whatever path each image took; a storage request that names no number is
\* routed with the range 1 through 10
C11_OneRecordPerImage ==
  /\ (job = "storage" =>
        /\ Len(results) <= ImageCount
        /\ Len(attempted) \in {Len(results), Len(results) + 1}
        /\ \A k \in 1..Len(attempted) : attempted[k] = ImageId(k)
        /\ \A k \in 1..Len(results) :
             /\ results[k].id = ImageId(k)
             /\ results[k].image = <<"r","e","f","u","n","d","_","r","e","q">>
                                   \o NatStr(ImageId(k)) \o <<".","p","n","g">>
             /\ results[k].status \in StorageStatuses
        /\ (pc = "done" => Len(results) = ImageCount /\ returned = "results"))
  /\ (StorageRouted =>
        /\ response.ret = Ret("fetch_and_process_storage_receipts", "results")
        /\ (~HasDigit(user_input) => response.args = <<1, 10>>))
C11_Witness ==
  /\ job = "storage" /\ pc = "done" /\ urls = <<1, 2>> /\ sb = "client"
  /\ Len(results) = 2
  /\ results[1].id = 1 /\ results[1].status = "success_via_sql"
  /\ results[2].id = 2 /\ results[2].status = "success_insert"

\* the receipt read last
LastExtracted == extracted[Len(extracted)]

\* C19: a call goes to the database only for an image whose amount was
\* extracted: in process_receipt_images, fetch_and_process_storage_receipts and
\* populate_refund_requests_from_bucket no insert or update is issued for an image
\* for which extract_amount_from_receipt returned None (in the storage function,
\* for the image URL and for the alternative URL)
C19_WriteOnlyWithAmount ==
  [][writes' # writes =>
       /\ job \in {"receipts", "bucket", "storage"}
       /\ extracted' # <<>>
       /\ ~LastExtracted'.exc
       /\ LastExtracted'.amount # NullV]_vars
C19_Witness ==
  /\ job = "storage" /\ pc = "done" /\ urls = <<1, 2>> /\ sb = "client"
  /\ Len(extracted) = 2
  /\ extracted[1].amount = NullV /\ extracted[2].amount # NullV
  /\ results[1].status = "extraction_failed" /\ results[2].status = "success"
  /\ writes = <<UpdateCall(kRefundRequests, update_data(image_url(2), extracted[2].amount),
                           <<"i","d">>, IntV(2))>>

\* C20: in fetch_and_process_storage_receipts the insert of a row with id i is
\* attempted only when the existence check that followed the update showed no
\* such row: the check returned the empty list; it is not attempted when the
\* check itself failed
C20_InsertOnlyWhenRowAbsent ==
  [][(/\ job = "storage"
      /\ Len(writes') = Len(writes) + 1
      /\ writes'[Len(writes')].op = "insert") =>
         /\ pc = "insert"
         /\ query = check_query(ImageId(idx))
         /\ result.ret = Ret("empty_list", "[]")]_vars

(***************************************************************************)
(* SpecSchema: get_supabase_schema_via_rest, followed from one call of the *)
(* database client to the next.  outs holds the responses received,        *)
(* result.calls the calls made and result.ret the value returned.          *)
(***************************************************************************)
\* the entries of a response: rows of (table_name, column_name), and an entry
\* without the key column_name
SchemaEntries ==
  {[table_name |-> "t", column_name |-> "a"], [table_name |-> "t", column_name |-> "b"],
   [table_name |-> "u", column_name |-> "a"], [table_name |-> "t"]}
MaxRows == 3
RowLists == UNION {[1..n -> SchemaEntries] : n \in 0..MaxRows}
\* what a call answers: it raises, the response has no data attribute, or its
\* data is a list of entries
SchemaResponses ==
  {[kind |-> "raise", data |-> <<>>], [kind |-> "noattr", data |-> <<>>]}
  \cup {[kind |-> "data", data |-> rows] : rows \in RowLists}

\* a slip in the loop: schema[table] = [column]
SchemaOf_LastColumn(rows, schema) ==
  IF \E k \in 1..Len(rows) : ~({"table_name", "column_name"} \subseteq DOMAIN rows[k])
  THEN [exc |-> TRUE, schema |-> schema]
  ELSE [exc |-> FALSE,
        schema |-> [tb \in {rows[k].table_name : k \in 1..Len(rows)} |->
                      <<rows[SetMax({k \in 1..Len(rows) : rows[k].table_name = tb})].column_name>>]]
\* lines 237-244 and 262-269: the loop that builds the schema; entry[...] raises
\* KeyError for a missing key
RECURSIVE SchemaOf(_, _)
SchemaOf(rows, schema) ==
  IF rows = <<>> THEN [exc |-> FALSE, schema |-> schema]
  ELSE LET entry == Head(rows)
       IN IF ~({"table_name", "column_name"} \subseteq DOMAIN entry)
          THEN [exc |-> TRUE, schema |-> schema]
          ELSE LET table == entry.table_name
                   known == IF table \in DOMAIN schema THEN schema
                            ELSE schema @@ (table :> <<>>)
               IN SchemaOf(Tail(rows), [known EXCEPT ![table] = Append(@, entry.column_name)])
EmptySchema == [tb \in {} |-> <<>>]

kGetTableSchema == <<"g","e","t","_","t","a","b","l","e","_","s","c","h","e","m","a">>
\* lines 249-254
schema_query == <<"\n"," "," "," "," "," "," "," "," ","S","E","L","E","C","T"," ","t","a","b","l","e","_","n","a","m","e",","," ","c","o","l","u","m","n","_","n","a","m","e","\n"," "," "," "," "," "," "," "," ","F","R","O","M"," ","i","n","f","o","r","m","a","t","i","o","n","_","s","c","h","e","m","a",".","c","o","l","u","m","n","s","\n"," "," "," "," "," "," "," "," ","W","H","E","R","E"," ","t","a","b","l","e","_","s","c","h","e","m","a"," ","="," ","'","p","u","b","l","i","c","'","\n"," "," "," "," "," "," "," "," ","O","R","D","E","R"," ","B","Y"," ","t","a","b","l","e","_","n","a","m","e",","," ","o","r","d","i","n","a","l","_","p","o","s","i","t","i","o","n","\n"," "," "," "," "," "," "," "," ">>
SchemaRet(schema) == [kind |-> "schema", msg |-> "schema", schema |-> schema]
\* the response of a call, and the call as it reached the database
Answers == IF sb = "client" THEN SchemaResponses ELSE {[kind |-> "raise", data |-> <<>>]}
Answered(r, call) ==
  /\ outs' = Append(outs, r)
  /\ UNCHANGED <<sb, query, mediaVars, mainVars>>
SchemaEnds(ret, call) ==
  /\ result' = [raised |-> FALSE, ret |-> ret, calls |-> result.calls \o Sent(sb = "client", call)]
  /\ pc' = "done"
SchemaGoesOn(to, call) ==
  /\ result' = [result EXCEPT !.calls = @ \o Sent(sb = "client", call)]
  /\ pc' = to

InitSchema ==
  /\ sb \in {"client", "None"}
  /\ pc = "get_table_schema"
  /\ SqlIdle /\ MediaIdle /\ MainIdle

\* lines 233-246: the RPC function get_table_schema, inside the inner handler
SchemaRpc ==
  /\ pc = "get_table_schema"
  /\ \E r \in Answers :
       LET call == RpcCall(kGetTableSchema, <<>>)
       IN /\ Answered(r, call)
          /\ IF r.kind = "data" /\ r.data # <<>> /\ ~SchemaOf(r.data, EmptySchema).exc
             THEN SchemaEnds(SchemaRet(SchemaOf(r.data, EmptySchema).schema), call)
             ELSE SchemaGoesOn("run_sql_query", call)

\* lines 255-259: the schema query through run_sql_query
SchemaQuery ==
  /\ pc = "run_sql_query"
  /\ \E r \in Answers :
       LET call == RpcCall(kRunSqlQuery, schema_query)
       IN /\ Answered(r, call)
          /\ IF r.kind # "data"
             THEN SchemaEnds(Ret("error", "Exception occurred while fetching schema"), call)
             ELSE IF r.data = <<>> THEN SchemaGoesOn("run_sql", call)
             ELSE IF SchemaOf(r.data, EmptySchema).exc
             THEN SchemaEnds(Ret("error", "Exception occurred while fetching schema"), call)
             ELSE SchemaEnds(SchemaRet(SchemaOf(r.data, EmptySchema).schema), call)

\* lines 259-273: the schema query through run_sql
SchemaAltQuery ==
  /\ pc = "run_sql"
  /\ \E r \in Answers :
       LET call == RpcCall(kRunSql, schema_query)
       IN /\ Answered(r, call)
          /\ IF r.kind # "data"
             THEN SchemaEnds(Ret("error", "Exception occurred while fetching schema"), call)
             ELSE IF r.data = <<>>
             THEN SchemaEnds(Ret("error", "No data returned from schema query"), call)
             ELSE IF SchemaOf(r.data, EmptySchema).exc
             THEN SchemaEnds(Ret("error", "Exception occurred while fetching schema"), call)
             ELSE SchemaEnds(SchemaRet(SchemaOf(r.data, EmptySchema).schema), call)

NextSchema == SchemaRpc \/ SchemaQuery \/ SchemaAltQuery
SpecSchema == InitSchema /\ [][NextSchema]_vars

(***************************************************************************)
(* Claims about get_supabase_schema_via_rest (SpecSchema)                  *)
(***************************************************************************)
\* the response the returned schema was built from: the one received last
LastResponse == outs[Len(outs)]
\* the columns of a table, in the order of the rows of the response
ColumnsOf(rows, table) ==
  LET hits == SelectSeq(rows, LAMBDA e : e.table_name = table)
  IN [k \in 1..Len(hits) |-> hits[k].column_name]
WellFormed(rows) ==
  \A k \in 1..Len(rows) : DOMAIN rows[k] = {"table_name", "column_name"}

\* C13: when get_supabase_schema_via_rest succeeds, the map it returns holds each
\* (table_name, column_name) row of the database response once: its tables are
\* the tables of the rows, and each maps to its columns in the order received;
\* when it fails it returns an object with the key 'error'; it never raises
C13_SchemaIsResponse ==
  pc = "done" =>
    /\ ~result.raised
    /\ result.ret.kind \in {"schema", "error"}
    /\ (result.ret.kind = "schema" =>
          /\ LastResponse.kind = "data" /\ LastResponse.data # <<>>
          /\ WellFormed(LastResponse.data)
          /\ DOMAIN result.ret.schema =
               {LastResponse.data[k].table_name : k \in 1..Len(LastResponse.data)}
          /\ \A tb \in DOMAIN result.ret.schema :
               result.ret.schema[tb] = ColumnsOf(LastResponse.data, tb))
    /\ (result.ret.kind = "error" =>
          \/ sb = "None"
          \/ LastResponse.kind # "data"
          \/ LastResponse.data = <<>>
          \/ ~WellFormed(LastResponse.data))
C13_Witness ==
  /\ pc = "done" /\ sb = "client"
  /\ Len(outs) = 2 /\ outs[1].kind = "raise"
  /\ outs[2].data = <<[table_name |-> "t", column_name |-> "b"],
                      [table_name |-> "u", column_name |-> "a"],
                      [table_name |-> "t", column_name |-> "a"]>>
  /\ result.ret = SchemaRet(("t" :> <<"b", "a">>) @@ ("u" :> <<"a">>))

(***************************************************************************)
(* Further claims about process_audio_urls (SpecMedia)                     *)
(***************************************************************************)
AudioRequestOver == job = "audio" /\ pc \in {"done", "finished"} /\ returned = "results"

\* C21: once an audio request is over and every file it downloaded has been
\* deleted, the scratch directory is removed, and cleanup_temp_files called
\* again changes nothing
C21_ScratchDirRemoved ==
  (AudioRequestOver /\ written # {} /\ fs.files = {}) =>
    (~fs.dir /\ cleanup_temp_files_dir(fs, unlinkOk) = fs)

\* the speech model produced a transcript for item i
Transcribed(i) == transcripts[i].kind = "text"
SummaryRunOver == job \in {"audio", "summary"} /\ pc \in {"done", "finished"}

\* C22: once process_audio_urls or get_audio_summary has returned,
\* summarize_text has been called for exactly the files the speech model
\* produced a transcript for, whatever its text, and each of them is
\* reported with status "success"
C22_SummaryForEveryTranscript ==
  SummaryRunOver =>
    /\ Len(summarized) = Cardinality({i \in DOMAIN transcripts : Transcribed(i)})
    /\ \A i \in DOMAIN results : Transcribed(i) <=> Status(i) = "success"

(***************************************************************************)
(* Further claims about handle_request (SpecMain)                          *)
(***************************************************************************)
DbOperationOver == RequestOver /\ CalledAny({"handle_database_operations"})
SchemaFetchError ==
  response.ret \in {Ret("error", "schema_data"),
                    Ret("error", "Failed to fetch schema from Supabase.")}

\* C23: in handle_database_operations, a request whose schema fetch at the
\* start succeeded goes on to the language model and is not answered with a
\* schema-fetch error; one whose fetch failed with an error that does not
\* mention 'status' and 'success' is answered with that error, without a call
\* of the language model and without any SQL
C23_SchemaFetchDecides ==
  DbOperationOver =>
    /\ (response.schema = "fetched" =>
          CalledAny({"nl_to_sql_gemini"}) /\ ~SchemaFetchError)
    /\ (response.schema = "error" =>
          /\ response.ret = Ret("error", "schema_data")
          /\ ~CalledAny({"nl_to_sql_gemini", "execute_sql_query"})
          /\ response.sqls = <<>>)

kFence == <<Backtick,Backtick,Backtick>>
\* one of the four statement keywords, in any letter case, starts at index i of s
KeywordAt(s, i) ==
  \E kw \in {<<"s","e","l","e","c","t">>, <<"i","n","s","e","r","t">>, <<"u","p","d","a","t","e">>, <<"d","e","l","e","t","e">>} : MatchCI(s, i, kw) # 0
\* the answer of the language model to the request of the line, and its text
\* without code fences and surrounding white space
Answer == response.answer
Unfenced == Strip(RemoveAll(RemoveAll(Answer.text, kFence \o <<"s","q","l">>), kFence))
NlToSqlReturned ==
  /\ response.called # <<>>
  /\ response.called[Len(response.called)] = "nl_to_sql_gemini"
  /\ Answer.h # "none"

\* C24: when the language model answers with status 200 and a candidate,
\* nl_to_sql_gemini returns a string: the text of the answer without code
\* fences, from its first SELECT, INSERT, UPDATE or DELETE (any letter case)
\* on when there is one, the whole trimmed text otherwise; that string holds no
\* code fence.  On another status or without a candidate it returns an error
\* object
C24_SqlFromAnswer ==
  NlToSqlReturned =>
    /\ (Answer.h = "text" =>
          /\ pc = "execute" /\ response.ret = NoRet /\ ~response.exc
          /\ ~Contains(query, kFence)
          /\ IF \E i \in 1..Len(Unfenced) : KeywordAt(Unfenced, i)
             THEN \E i \in 1..Len(Unfenced) :
                    /\ KeywordAt(Unfenced, i)
                    /\ \A j \in 1..(i - 1) : ~KeywordAt(Unfenced, j)
                    /\ query = Strip(SubSeq(Unfenced, i, Len(Unfenced)))
             ELSE query = Unfenced)
    /\ (Answer.h \in {"non200", "no_candidates"} =>
          pc = "prompt" /\ response.ret.kind = "error" /\ ~response.exc)
\* C24 witness: an answer of five fence characters, sql, one more and a
\* lower-case statement has been returned as the statement alone
C24_Witness ==
  /\ NlToSqlReturned /\ Answer.h = "text" /\ pc = "execute"
  /\ Answer.text = <<Backtick,Backtick,Backtick,Backtick,Backtick,"s","q","l",Backtick," ","u","p","d","a","t","e"," ","t"," ","s","e","t"," ","a"," ","="," ","1"," ">>
  /\ query = <<"u","p","d","a","t","e"," ","t"," ","s","e","t"," ","a"," ","="," ","1">>

====
